---- MODULE Spec2Model ----
(***************************************************************************)
(* A model of YAGA, the Fusion 360 gear add-in: the numeric and symbolic   *)
(* derivations of SpurGear.create_component and Rack.create_component, the *)
(* input validation of the rack and spur gear commands, the point          *)
(* reflection of mirror_sketch_spline, the tooth's flanks, bodies and      *)
(* profiles, find_next_name, the rack command's dialog and stored          *)
(* attributes, and the add-in's start and stop.                            *)
(*                                                                         *)
(* Python floats are modelled by exact rationals <<n, d>> (d > 0, lowest   *)
(* terms); math.sqrt is kept exact by working in Q(sqrt M); math.pi and    *)
(* math.cos are rational approximations (PI, cos).                         *)
(***************************************************************************)
EXTENDS Integers, Sequences, FiniteSets, TLC

VARIABLES
    frame,        \* locals of the most recent create_component call
    design,       \* the active document: what the calls have added to it
    dialog,       \* the command inputs of the open dialog
    areInputsValid, \* args.areInputsValid as the last validation left it:
                    \* "True" or "False", "unset" before any validation
    error_message,  \* rack entry.py: _error_message.text
    sketch,       \* mirror.py: the sketch mirror_sketch_spline works on
    tooth,        \* spur_gear.py: the tooth a non-preview call is building
    ui            \* app.userInterface: command definitions and toolbar controls

vars == <<frame, design, dialog, areInputsValid, error_message, sketch, tooth, ui>>

\* no tooth is being built
NoTooth == [pc |-> "none"]

\* the user interface the add-in has not touched
NoUI == [commandDefinitions |-> <<>>, controls |-> {}, gear_drop_down_controls |-> <<>>,
         addDropDown_calls |-> 0, calls |-> <<>>]

----------------------------------------------------------------------------
(* Exact rational arithmetic standing in for Python float arithmetic.      *)

Abs(n) == IF n < 0 THEN -n ELSE n

RECURSIVE GCD(_, _)
GCD(a, b) == IF b = 0 THEN a ELSE GCD(b, a % b)

\* the rational n/d in lowest terms with a positive denominator (d # 0)
Rat(n, d) ==
    LET s == IF d < 0 THEN -1 ELSE 1
        g == GCD(Abs(n), Abs(d))
    IN  <<(s * n) \div g, (s * d) \div g>>

RInt(n) == <<n, 1>>
\* sums over the least common denominator and products with the common
\* factors taken out first, so that intermediate integers stay small
RAdd(p, q) ==
    LET g == GCD(p[2], q[2])
    IN  Rat(p[1] * (q[2] \div g) + q[1] * (p[2] \div g), (p[2] \div g) * q[2])
RNeg(p) == <<-p[1], p[2]>>
RSub(p, q) == RAdd(p, RNeg(q))
RMul(p, q) ==
    LET g1 == GCD(Abs(p[1]), q[2])
        g2 == GCD(Abs(q[1]), p[2])
    IN  Rat((p[1] \div g1) * (q[1] \div g2), (p[2] \div g2) * (q[2] \div g1))
RDiv(p, q) == RMul(p, Rat(q[2], q[1]))
RAbs(p) == <<Abs(p[1]), p[2]>>
RLt(p, q) ==
    LET g == GCD(p[2], q[2])
    IN  p[1] * (q[2] \div g) < q[1] * (p[2] \div g)
RLe(p, q) ==
    LET g == GCD(p[2], q[2])
    IN  p[1] * (q[2] \div g) <= q[1] * (p[2] \div g)
RGt(p, q) == RLt(q, p)
RGe(p, q) == RLe(q, p)

----------------------------------------------------------------------------
(* lib/fusion360utils/mirror.py                                            *)
(*                                                                         *)
(* math.sqrt is exact here: a value of a call is r + s*m with r, s         *)
(* rational and m = sqrt(M), M = a*a + b*b; Surd(r, s) stands for it.      *)

Surd(r, s) == [r |-> r, s |-> s]
SRat(q) == Surd(q, RInt(0))
SAdd(u, v) == Surd(RAdd(u.r, v.r), RAdd(u.s, v.s))
SSub(u, v) == Surd(RSub(u.r, v.r), RSub(u.s, v.s))
SNeg(u) == Surd(RNeg(u.r), RNeg(u.s))
\* (r1 + s1 m)(r2 + s2 m) = r1 r2 + s1 s2 M + (r1 s2 + s1 r2) m
SMul(M, u, v) ==
    Surd(RAdd(RMul(u.r, v.r), RMul(M, RMul(u.s, v.s))),
         RAdd(RMul(u.r, v.s), RMul(u.s, v.r)))
\* (r + s m) / m = s + (r / M) m
SDivSqrt(M, u) == Surd(u.s, RDiv(u.r, M))

Point3D(x, y, z) == [x |-> x, y |-> y, z |-> z]

\* bounds of the sketches explored
MaxSplines == 3
MaxFitPoints == 2

\* a sketch point with integer coordinates
IntPoint(x, y, z) == Point3D(SRat(RInt(x)), SRat(RInt(y)), RInt(z))

ZValues == {0, 1}
LineStarts == {<<0, 0>>, <<-1, 2>>}
LineEnds == {<<0, 0>>, <<2, 0>>, <<2, 2>>, <<-1, -1>>, <<0, 2>>}
FitPointXY == {<<-1, 0>>, <<2, 2>>, <<1, -2>>}

MirrorLines ==
    { [startSketchPoint |-> IntPoint(s[1], s[2], z),
       endSketchPoint |-> IntPoint(e[1], e[2], z)] :
         s \in LineStarts, e \in LineEnds, z \in ZValues }

FitPoints == { IntPoint(p[1], p[2], z) : p \in FitPointXY, z \in ZValues }

Splines == UNION { [1..n -> FitPoints] : n \in 1..MaxFitPoints }

NoSketch ==
    [mirror_line |-> [startSketchPoint |-> IntPoint(0, 0, 0),
                      endSketchPoint |-> IntPoint(0, 0, 0)],
     sketchFittedSplines |-> <<>>, symmetry |-> {}, raised |-> "none"]

\* mirror.py:15-21, the normalised line a_p*x + b_p*y + c_p = 0
MirrorLineCoefficients(mirror_line) ==
    LET x1 == mirror_line.startSketchPoint.x
        x2 == mirror_line.endSketchPoint.x
        y1 == mirror_line.startSketchPoint.y
        y2 == mirror_line.endSketchPoint.y
        a == SSub(y2, y1)
        b == SNeg(SSub(x2, x1))
        \* a, b and c are rational for a line with rational end points
        M == RAdd(RMul(a.r, a.r), RMul(b.r, b.r))
        c == SSub(SMul(M, SNeg(a), x1), SMul(M, b, y1))
    IN  [a |-> a, b |-> b, c |-> c, M |-> M,
         a_p |-> IF M = RInt(0) THEN a ELSE SDivSqrt(M, a),
         b_p |-> IF M = RInt(0) THEN b ELSE SDivSqrt(M, b),
         c_p |-> IF M = RInt(0) THEN c ELSE SDivSqrt(M, c)]

\* mirror.py:13, the z given to every mirrored point
MirrorZ(mirror_line, pt) == mirror_line.startSketchPoint.z

\* a slip: the distance d subtracted once, which projects the point on the line
MirrorPoint_once(mirror_line, pt) ==
    LET k == MirrorLineCoefficients(mirror_line)
        px == pt.x
        py == pt.y
        d == SAdd(SAdd(SMul(k.M, k.a_p, px), SMul(k.M, k.b_p, py)), k.c_p)
        px_p == SSub(px, SMul(k.M, k.a_p, d))
        py_p == SSub(py, SMul(k.M, k.b_p, d))
    IN  Point3D(px_p, py_p, MirrorZ(mirror_line, pt))

\* a slip: a_p copied into the line that computes py_p
MirrorPoint_a_for_b(mirror_line, pt) ==
    LET k == MirrorLineCoefficients(mirror_line)
        two == SRat(RInt(2))
        px == pt.x
        py == pt.y
        d == SAdd(SAdd(SMul(k.M, k.a_p, px), SMul(k.M, k.b_p, py)), k.c_p)
        px_p == SSub(px, SMul(k.M, SMul(k.M, two, k.a_p), d))
        py_p == SSub(py, SMul(k.M, SMul(k.M, two, k.a_p), d))
    IN  Point3D(px_p, py_p, MirrorZ(mirror_line, pt))

\* mirror.py:25-30, one fit point reflected
MirrorPoint(mirror_line, pt) ==
    LET k == MirrorLineCoefficients(mirror_line)
        two == SRat(RInt(2))
        px == pt.x
        py == pt.y
        d == SAdd(SAdd(SMul(k.M, k.a_p, px), SMul(k.M, k.b_p, py)), k.c_p)
        px_p == SSub(px, SMul(k.M, SMul(k.M, two, k.a_p), d))
        py_p == SSub(py, SMul(k.M, SMul(k.M, two, k.b_p), d))
    IN  Point3D(px_p, py_p, MirrorZ(mirror_line, pt))

\* mirror.py:5-34: spline number i of the sketch mirrored across the sketch's
\* mirror line; the new spline and the symmetry constraint join the sketch.
\* m = 0 (a line of length 0) makes a / m raise ZeroDivisionError.
mirror_sketch_spline(i) ==
    /\ i \in 1..Len(sketch.sketchFittedSplines)
    /\ Len(sketch.sketchFittedSplines) < MaxSplines
    /\ LET line == sketch.mirror_line
           spline == sketch.sketchFittedSplines[i]
       IN  IF MirrorLineCoefficients(line).M = RInt(0)
           THEN sketch' = [sketch EXCEPT !.raised = "ZeroDivisionError"]
           ELSE sketch' =
                  [sketch EXCEPT
                     !.sketchFittedSplines =
                         Append(@, [j \in 1..Len(spline) |-> MirrorPoint(line, spline[j])]),
                     !.symmetry = @ \cup {<<i, Len(sketch.sketchFittedSplines) + 1>>},
                     !.raised = "none"]
    /\ UNCHANGED <<frame, design, dialog, areInputsValid, error_message, tooth, ui>>

----------------------------------------------------------------------------
(* The numbers of the host and of Python's math module.                    *)

\* math.pi
PI == Rat(355, 113)

\* math.radians, and the host's internal value (radians) of "<deg> deg"
radians(deg) == RMul(RInt(deg), RDiv(PI, RInt(180)))

\* the pressure angles explored, in degrees
Degrees == {-5, 0, 20, 45, 50}

\* math.cos of the angles explored, to three decimals
cos(x) ==
    LET deg == CHOOSE d \in Degrees : radians(d) = x
    IN  CASE deg = -5 -> Rat(996, 1000)
          [] deg = 0 -> RInt(1)
          [] deg = 20 -> Rat(940, 1000)
          [] deg = 45 -> Rat(707, 1000)
          [] deg = 50 -> Rat(643, 1000)

----------------------------------------------------------------------------
(* The symbolic layer: the expression strings the code builds with         *)
(* f-strings, as trees, and the host's evaluation of them                  *)
(* (unitsManager.evaluateExpression, and a parameter's value).  A          *)
(* parenthesised f-string is the subtree itself.  Lengths are in cm and    *)
(* angles in radians, the host's internal units.                           *)

Num(v) == [op |-> "num", v |-> v]
Pi == [op |-> "PI"]
Mul(l, r) == [op |-> "*", l |-> l, r |-> r]
Div(l, r) == [op |-> "/", l |-> l, r |-> r]
Add(l, r) == [op |-> "+", l |-> l, r |-> r]
Sub(l, r) == [op |-> "-", l |-> l, r |-> r]
CosOf(e) == [op |-> "cos", e |-> e]
Param(n) == [op |-> "param", name |-> n]

\* the expression of the parameter called n among the parameters ps
ParameterExpression(ps, n) == (CHOOSE q \in ps : q.name = n).expression

RECURSIVE evaluateExpression(_, _)
evaluateExpression(e, ps) ==
    CASE e.op = "num" -> e.v
      [] e.op = "PI" -> PI
      [] e.op = "*" -> RMul(evaluateExpression(e.l, ps), evaluateExpression(e.r, ps))
      [] e.op = "/" -> RDiv(evaluateExpression(e.l, ps), evaluateExpression(e.r, ps))
      [] e.op = "+" -> RAdd(evaluateExpression(e.l, ps), evaluateExpression(e.r, ps))
      [] e.op = "-" -> RSub(evaluateExpression(e.l, ps), evaluateExpression(e.r, ps))
      [] e.op = "cos" -> cos(evaluateExpression(e.e, ps))
      [] e.op = "param" -> evaluateExpression(ParameterExpression(ps, e.name), ps)

\* a command input: its expression and the value the host derives from it
ValueCommandInput(v) ==
    [expression |-> Num(v), value |-> v, isValid |-> TRUE, isValidExpression |-> TRUE]

None == <<>>

\* d.parameter.name after "if name: d.parameter.name = f'{name}_<suffix>'":
\* the given name, or the name the host gave the dimension (d1, d2, ...)
ParameterName(name, suffix, k) ==
    IF name # None THEN name \o <<"_", suffix>> ELSE <<"d", k>>

\* a non-negative integer as an f-string formats it ({i}): one
\* token for each decimal digit
RECURSIVE format_int(_)
format_int(i) ==
    LET digit(n) == <<"0", "1", "2", "3", "4", "5", "6", "7", "8", "9">>[n + 1]
    IN  IF i < 10 THEN <<digit(i)>> ELSE format_int(i \div 10) \o <<digit(i % 10)>>

----------------------------------------------------------------------------
(* commands/spur_gear/spur_gear.py: SpurGear.create_component              *)

\* spur_gear.py:45
SpurGear_dedendum(module) == RMul(Rat(125, 100), module)
\* spur_gear.py:49
SpurGear_pitch(module) == RMul(PI, module)
\* spur_gear.py:53
SpurGear_tooth_thickness(pitch) == RDiv(pitch, RInt(2))
\* spur_gear.py:71
SpurGear_pitch_diameter(number_of_teeth, module) == RMul(number_of_teeth, module)
\* a slip: the dedendum taken once, as for a radius
SpurGear_root_diameter_once(pitch_diameter, dedendum) ==
    RSub(pitch_diameter, dedendum)
\* spur_gear.py:83
SpurGear_root_diameter(pitch_diameter, dedendum) ==
    RSub(pitch_diameter, RMul(RInt(2), dedendum))
\* spur_gear.py:99
SpurGear_base_diameter(pitch_diameter, pressure_angle) ==
    RMul(pitch_diameter, cos(pressure_angle))
\* spur_gear.py:111
SpurGear_outside_diameter(pitch_diameter, module) ==
    RMul(RAdd(pitch_diameter, RInt(2)), module)

\* spur_gear.py:46-55, 72, 80, 84, 100, 112: the expressions, each circle's
\* expression replaced by the name of the parameter that holds it
\* (spur_gear.py:73, 85, 101, 113 with 276-279, 299-302, 321-324, 344-347)
SpurGear_expressions(pressure_angle_expr, number_of_teeth_expr, module_expr, backlash_expr, name) ==
    LET dedendum_expr == Mul(Num(Rat(125, 100)), module_expr)
        pitch_expr == Mul(Pi, module_expr)
        tooth_thickness_expr == Div(pitch_expr, Num(RInt(2)))
        half_tooth_thickness_expr == Div(tooth_thickness_expr, Num(RInt(2)))
        pitch_diameter_p == ParameterName(name, "pitchDiameter", "1")
        root_diameter_p == ParameterName(name, "rootDiameter", "2")
        base_diameter_p == ParameterName(name, "baseDiameter", "3")
        outside_diameter_p == ParameterName(name, "outsideDiameter", "4")
        pitch_diameter_expr == Param(pitch_diameter_p)
        root_diameter_expr == Param(root_diameter_p)
        base_diameter_expr == Param(base_diameter_p)
        outside_diameter_expr == Param(outside_diameter_p)
    IN  [dedendum_expr |-> dedendum_expr,
         pitch_expr |-> pitch_expr,
         tooth_thickness_expr |-> tooth_thickness_expr,
         half_tooth_thickness_expr |-> half_tooth_thickness_expr,
         pitch_diameter_expr |-> pitch_diameter_expr,
         backlash_angle_expr |->
             Mul(Div(Div(backlash_expr, Num(RInt(4))), Mul(Pi, pitch_diameter_expr)),
                 Num(radians(360))),
         root_diameter_expr |-> root_diameter_expr,
         base_diameter_expr |-> base_diameter_expr,
         outside_diameter_expr |-> outside_diameter_expr,
         parameters |->
             { [name |-> pitch_diameter_p,
                expression |-> Mul(number_of_teeth_expr, module_expr)],
               [name |-> root_diameter_p,
                expression |-> Sub(pitch_diameter_expr, Mul(Num(RInt(2)), dedendum_expr))],
               [name |-> base_diameter_p,
                expression |-> Mul(pitch_diameter_expr, CosOf(pressure_angle_expr))],
               [name |-> outside_diameter_p,
                expression |-> Add(pitch_diameter_expr, Mul(Num(RInt(2)), module_expr))] }]

\* spur_gear.py:157
tangent_line_count == 10
\* spur_gear.py:158
tangent_line_interval_deg == 5

\* the backlash angle added where it is subtracted
SpurGear_involute_curve_mirror_offset_angle_expr_plus_backlash(half_tooth_thickness_expr, root_diameter_expr, backlash_angle_expr) ==
    Add(Mul(Div(half_tooth_thickness_expr, Mul(Pi, root_diameter_expr)), Num(radians(360))),
        backlash_angle_expr)
\* the offset angle without the backlash angle
SpurGear_involute_curve_mirror_offset_angle_expr_no_backlash(half_tooth_thickness_expr, root_diameter_expr, backlash_angle_expr) ==
    Mul(Div(half_tooth_thickness_expr, Mul(Pi, root_diameter_expr)), Num(radians(360)))
\* spur_gear.py:153-155
SpurGear_involute_curve_mirror_offset_angle_expr(half_tooth_thickness_expr, root_diameter_expr, backlash_angle_expr) ==
    Sub(Mul(Div(half_tooth_thickness_expr, Mul(Pi, root_diameter_expr)), Num(radians(360))),
        backlash_angle_expr)

\* both flanks drawn on the same side of the mirror line
SpurGear_create_involute_curve_radius_construction_lines_one_side(involute_curve_mirror_offset_angle_expr, count, interval_deg, clockwise) ==
    [k \in 1..count |->
        LET i == k - 1
        IN  IF i = 0
            THEN [y |-> -1, dimensioned_from |-> "involute_curve_mirror_line",
                  expression |-> involute_curve_mirror_offset_angle_expr]
            ELSE [y |-> i + 1, dimensioned_from |-> "radius_lines[0]",
                  expression |-> Mul(Num(RInt(i + 1)), Num(radians(interval_deg)))]]
\* spur_gear.py:362-405: the radius lines of one flank.  Line i is drawn to
\* the point (base_diameter / 2, y) and then held by an angular dimension,
\* from the mirror line for line 0 and from line 0 for the others
SpurGear_create_involute_curve_radius_construction_lines(involute_curve_mirror_offset_angle_expr, count, interval_deg, clockwise) ==
    LET sign == IF clockwise THEN 1 ELSE -1
    IN  [k \in 1..count |->
            LET i == k - 1
                y == IF i = 0 THEN -sign ELSE sign * (i + 1)
            IN  IF i = 0
                THEN [y |-> y, dimensioned_from |-> "involute_curve_mirror_line",
                      expression |-> involute_curve_mirror_offset_angle_expr]
                ELSE [y |-> y, dimensioned_from |-> "radius_lines[0]",
                      expression |-> Mul(Num(RInt(i + 1)), Num(radians(interval_deg)))]]

\* every tangent line given the same length
SpurGear_create_involute_curve_same_length(base_diameter_expr, involute_curve_mirror_offset_angle_expr, count, interval_deg, clockwise) ==
    LET radius_lines == SpurGear_create_involute_curve_radius_construction_lines(
                            involute_curve_mirror_offset_angle_expr, count, interval_deg, clockwise)
        sign == IF clockwise THEN -1 ELSE 1
    IN  [k \in 1..Len(radius_lines) |->
            IF k = 1
            THEN [point |-> "radius_line.endSketchPoint", radius_line |-> radius_lines[1]]
            ELSE [point |-> "tangent_line.endSketchPoint", radius_line |-> radius_lines[k],
                  tangent_line |->
                      [y |-> sign,
                       expression |->
                           Mul(Mul(Mul(Num(RInt(2)), Pi), base_diameter_expr),
                               Div(Num(radians(interval_deg)), Num(radians(360))))]]]
\* the tangent lengths counted from i, the radius lines from i + 1
SpurGear_create_involute_curve_from_i(base_diameter_expr, involute_curve_mirror_offset_angle_expr, count, interval_deg, clockwise) ==
    LET radius_lines == SpurGear_create_involute_curve_radius_construction_lines(
                            involute_curve_mirror_offset_angle_expr, count, interval_deg, clockwise)
        sign == IF clockwise THEN -1 ELSE 1
    IN  [k \in 1..Len(radius_lines) |->
            IF k = 1
            THEN [point |-> "radius_line.endSketchPoint", radius_line |-> radius_lines[1]]
            ELSE [point |-> "tangent_line.endSketchPoint", radius_line |-> radius_lines[k],
                  tangent_line |->
                      [y |-> sign,
                       expression |->
                           Mul(Mul(Mul(Num(RInt(k - 1)), Pi), base_diameter_expr),
                               Div(Num(radians(interval_deg)), Num(radians(360))))]]]
\* spur_gear.py:408-463: the fit points of one flank's spline.  Point 0 is
\* the end of radius line 0; point i is the end of the line drawn from the
\* end of radius line i towards (base_diameter, sign * base_diameter), held
\* tangent to the base circle and given a length by a distance dimension
SpurGear_create_involute_curve(base_diameter_expr, involute_curve_mirror_offset_angle_expr, count, interval_deg, clockwise) ==
    LET radius_lines == SpurGear_create_involute_curve_radius_construction_lines(
                            involute_curve_mirror_offset_angle_expr, count, interval_deg, clockwise)
        sign == IF clockwise THEN -1 ELSE 1
    IN  [k \in 1..Len(radius_lines) |->
            LET i == k - 1
            IN  IF i = 0
                THEN [point |-> "radius_line.endSketchPoint", radius_line |-> radius_lines[1]]
                ELSE [point |-> "tangent_line.endSketchPoint", radius_line |-> radius_lines[k],
                      tangent_line |->
                          [y |-> sign,
                           expression |->
                               Mul(Mul(Mul(Num(RInt(i + 1)), Pi), base_diameter_expr),
                                   Div(Num(radians(interval_deg)), Num(radians(360))))]]]

\* spur_gear.py:58-93 add the component, the circles sketch and the root
\* circle's extrusion; 124-256 add, when not a preview, the tooth profile
\* sketch, the tooth sketch and the tooth's extrusion
SpurGear_added(preview) ==
    [components |-> 1,
     sketches |-> IF preview THEN 1 ELSE 3,
     extrudeFeatures |-> IF preview THEN 1 ELSE 2]

\* spur_gear.py:24-258, the locals of one call
SpurGear_locals(pressure_angle_value, number_of_teeth_value, module_value, root_fillet_radius_value, backlash_value, preview, name) ==
    LET pressure_angle == evaluateExpression(pressure_angle_value.expression, {})
        number_of_teeth == evaluateExpression(number_of_teeth_value.expression, {})
        module == evaluateExpression(module_value.expression, {})
        dedendum == SpurGear_dedendum(module)
        pitch == SpurGear_pitch(module)
        tooth_thickness == SpurGear_tooth_thickness(pitch)
        pitch_diameter == SpurGear_pitch_diameter(number_of_teeth, module)
        root_diameter == SpurGear_root_diameter(pitch_diameter, dedendum)
        base_diameter == SpurGear_base_diameter(pitch_diameter, pressure_angle)
        outside_diameter == SpurGear_outside_diameter(pitch_diameter, module)
        expr == SpurGear_expressions(pressure_angle_value.expression,
                                     number_of_teeth_value.expression,
                                     module_value.expression,
                                     backlash_value.expression, name)
    IN  [fn |-> "SpurGear.create_component",
         pressure_angle_value |-> pressure_angle_value,
         number_of_teeth_value |-> number_of_teeth_value,
         module_value |-> module_value,
         root_fillet_radius_value |-> root_fillet_radius_value,
         backlash_value |-> backlash_value,
         preview |-> preview,
         name |-> name,
         pressure_angle |-> pressure_angle,
         number_of_teeth |-> number_of_teeth,
         module |-> module,
         dedendum |-> dedendum,
         pitch |-> pitch,
         tooth_thickness |-> tooth_thickness,
         pitch_diameter |-> pitch_diameter,
         root_diameter |-> root_diameter,
         base_diameter |-> base_diameter,
         outside_diameter |-> outside_diameter,
         expr |-> expr,
         added |-> SpurGear_added(preview)]

\* the names the call gives dimension parameters and extrude features
\* (spur_gear.py:94-96, 277-278, 300-301, 322-323, 345-346, 550-552, 628-629)
SpurGear_names(preview, name) ==
    IF name = None THEN {}
    ELSE { name \o <<"_", x>> :
             x \in {"pitchDiameter", "rootDiameter", "baseDiameter",
                    "outsideDiameter", "circle"}
                   \cup (IF preview THEN {} ELSE {"rootFilletRadius", "tooth"}) }

----------------------------------------------------------------------------
(* commands/rack/rack.py: Rack.create_component                            *)

\* rack.py:40
Rack_dedendum(module) == RMul(Rat(125, 100), module)
\* rack.py:44
Rack_pitch(module) == RMul(PI, module)

\* rack.py:41-51
\* the backlash taken off the tooth thickness
Rack_expressions_less_backlash(module_expr, backlash_expr) ==
    LET dedendum_expr == Mul(Num(Rat(125, 100)), module_expr)
        pitch_expr == Mul(Pi, module_expr)
    IN  [backlash_expr |-> backlash_expr,
         dedendum_expr |-> dedendum_expr,
         pitch_expr |-> pitch_expr,
         tooth_thickness_expr |-> Sub(Div(pitch_expr, Num(RInt(2))), backlash_expr),
         height_expr |-> Add(module_expr, dedendum_expr)]
\* the tooth thickness taken for a third of the pitch
Rack_expressions_third(module_expr, backlash_expr) ==
    LET dedendum_expr == Mul(Num(Rat(125, 100)), module_expr)
        pitch_expr == Mul(Pi, module_expr)
    IN  [backlash_expr |-> backlash_expr,
         dedendum_expr |-> dedendum_expr,
         pitch_expr |-> pitch_expr,
         tooth_thickness_expr |-> Div(pitch_expr, Num(RInt(3))),
         height_expr |-> Add(module_expr, dedendum_expr)]
\* rack.py:37-51: the expressions built from the inputs; backlash_expr is
\* built and used by none of the others
Rack_expressions(module_expr, backlash_expr) ==
    LET dedendum_expr == Mul(Num(Rat(125, 100)), module_expr)
        pitch_expr == Mul(Pi, module_expr)
    IN  [backlash_expr |-> backlash_expr,
         dedendum_expr |-> dedendum_expr,
         pitch_expr |-> pitch_expr,
         tooth_thickness_expr |-> Div(pitch_expr, Num(RInt(2))),
         height_expr |-> Add(module_expr, dedendum_expr)]

\* the right face's angle taken for pressure_angle - 90 deg
Rack_face_angle_right_expr_reversed(pressure_angle_expr) ==
    Sub(pressure_angle_expr, Num(radians(90)))
\* rack.py:225
Rack_face_angle_right_expr(pressure_angle_expr) ==
    Sub(Num(radians(90)), pressure_angle_expr)

\* rack.py:54: "1 <default length unit>", the unit being the millimetre
Rack_bottom_box_height_expr == Num(Rat(1, 10))

\* rack.py:157-358, __create_tooth_sketch: the dimensions of the tooth
\* sketch in the order the code adds them, each with the entities it
\* measures, its expression and its parameter's name
Rack_create_tooth_sketch(pitch_expr, tooth_thickness_expr, pressure_angle_expr, height_expr, dedendum_expr, root_fillet_radius_expr, name) ==
    << [dimension |-> "angular",
        between |-> <<"root_line_left", "face_line_left">>,
        expression |-> Add(pressure_angle_expr, Num(radians(90))),
        name |-> ParameterName(name, "faceAngle", "3")],
       [dimension |-> "vertical distance",
        between |-> <<"face_line_left.startSketchPoint", "face_line_left.endSketchPoint">>,
        expression |-> height_expr,
        name |-> ParameterName(name, "height", "4")],
       [dimension |-> "angular",
        between |-> <<"root_line_left", "face_line_right">>,
        expression |-> Rack_face_angle_right_expr(pressure_angle_expr),
        name |-> ParameterName(name, "faceAngleRight", "5")],
       [dimension |-> "vertical distance",
        between |-> <<"face_line_right.startSketchPoint", "root_line_right.endSketchPoint">>,
        expression |-> height_expr,
        name |-> ParameterName(name, "height", "6")],
       [dimension |-> "vertical distance",
        between |-> <<"bottom_box_right.startSketchPoint", "bottom_box_right.endSketchPoint">>,
        expression |-> Rack_bottom_box_height_expr,
        name |-> ParameterName(name, "offsetHeight", "7")],
       [dimension |-> "radial",
        between |-> <<"root_fillet_left">>,
        expression |-> root_fillet_radius_expr,
        name |-> ParameterName(name, "rootFilletRadius", "8")],
       [dimension |-> "horizontal distance",
        between |-> <<"root_line_left.startSketchPoint", "root_line_right.endSketchPoint">>,
        expression |-> pitch_expr,
        name |-> ParameterName(name, "pitch", "9")],
       [dimension |-> "vertical distance",
        between |-> <<"pitch_line.startSketchPoint", "root_line_left.startSketchPoint">>,
        expression |-> dedendum_expr,
        name |-> ParameterName(name, "dedendum", "10")],
       [dimension |-> "horizontal distance",
        between |-> <<"pitch_line.startSketchPoint", "pitch_line.endSketchPoint">>,
        expression |-> tooth_thickness_expr,
        name |-> ParameterName(name, "toothThickness", "11")] >>

\* rack.py:110-154, __create_construction_sketch: the two dimensions of the
\* construction pitch line, its height above the origin and its length
Rack_create_construction_sketch(dedendum_expr, number_of_teeth_expr, pitch_expr, name) ==
    << [dimension |-> "vertical distance",
        between |-> <<"pitch_line.startSketchPoint", "center_point">>,
        expression |-> dedendum_expr,
        name |-> ParameterName(name, "dedendum", "1")],
       [dimension |-> "horizontal distance",
        between |-> <<"pitch_line.startSketchPoint", "pitch_line.endSketchPoint">>,
        expression |-> Mul(number_of_teeth_expr, pitch_expr),
        name |-> ParameterName(name, "pitchConstructionLength", "2")] >>

\* rack.py:361-374, __extrude_tooth: the first profile of the tooth sketch
\* extruded as a new body
Rack_extrude_tooth(gear_thickness_expr, name) ==
    [profile |-> "sketch.profiles[0]",
     distance |-> gear_thickness_expr,
     operation |-> "NewBodyFeatureOperation",
     name |-> name]

\* the copies one tooth thickness apart
Rack_create_tooth_linear_pattern_half_pitch(number_of_teeth_expr, pitch_expr, name) ==
    LET quantity == evaluateExpression(number_of_teeth_expr, {})[1]
    IN  [entities |-> <<"tooth_extrude.bodies[0]">>,
         direction_one |-> "xConstructionAxis",
         quantity_one |-> number_of_teeth_expr,
         distance_one |-> Div(pitch_expr, Num(RInt(2))),
         distance_type |-> "SpacingPatternDistanceType",
         direction_two |-> "yConstructionAxis",
         quantity_two |-> Num(RInt(1)),
         distance_two |-> Num(RInt(1)),
         name |-> IF name # None THEN name \o <<"_", "toothLinearPattern">> ELSE None,
         bodies |-> [i \in 0..(quantity - 1) |->
                        IF name # None THEN name \o <<"_", "tooth">> \o format_int(i + 1)
                                       ELSE None]]
\* rack.py:377-406, __create_tooth_linear_pattern: a rectangular pattern of
\* the tooth's body, number_of_teeth instances pitch apart along the first
\* direction and one instance along the second; the pattern's bodies are
\* named when a name is given
Rack_create_tooth_linear_pattern(number_of_teeth_expr, pitch_expr, name) ==
    LET quantity == evaluateExpression(number_of_teeth_expr, {})[1]
    IN  [entities |-> <<"tooth_extrude.bodies[0]">>,
         direction_one |-> "xConstructionAxis",
         quantity_one |-> number_of_teeth_expr,
         distance_one |-> pitch_expr,
         distance_type |-> "SpacingPatternDistanceType",
         direction_two |-> "yConstructionAxis",
         quantity_two |-> Num(RInt(1)),
         distance_two |-> Num(RInt(1)),
         name |-> IF name # None THEN name \o <<"_", "toothLinearPattern">> ELSE None,
         bodies |-> [i \in 0..(quantity - 1) |->
                        IF name # None THEN name \o <<"_", "tooth">> \o format_int(i + 1)
                                       ELSE None]]

\* rack.py:57, 118, 169, 366: the component, the construction sketch, the
\* tooth sketch and the tooth's extrusion
Rack_added == [components |-> 1, sketches |-> 2, extrudeFeatures |-> 1]

\* rack.py:139-150, 194-355, 371-373: the names given when name is set
Rack_names(name) ==
    IF name = None THEN {}
    ELSE { name \o <<"_", x>> :
             x \in {"dedendum", "pitchConstructionLength", "faceAngle", "height",
                    "faceAngleRight", "offsetHeight", "rootFilletRadius", "pitch",
                    "toothThickness"} } \cup {name}

\* rack.py:20-107, the locals of one call
Rack_locals(pressure_angle_value, number_of_teeth_value, module_value, root_fillet_radius_value, gear_thickness_value, backlash_value, preview, name) ==
    LET pressure_angle == evaluateExpression(pressure_angle_value.expression, {})
        number_of_teeth == evaluateExpression(number_of_teeth_value.expression, {})
        module == evaluateExpression(module_value.expression, {})
        expr == Rack_expressions(module_value.expression, backlash_value.expression)
    IN  [fn |-> "Rack.create_component",
         pressure_angle_value |-> pressure_angle_value,
         number_of_teeth_value |-> number_of_teeth_value,
         module_value |-> module_value,
         root_fillet_radius_value |-> root_fillet_radius_value,
         gear_thickness_value |-> gear_thickness_value,
         backlash_value |-> backlash_value,
         preview |-> preview,
         name |-> name,
         pressure_angle |-> pressure_angle,
         number_of_teeth |-> number_of_teeth,
         module |-> module,
         root_fillet_radius |-> root_fillet_radius_value.value,
         dedendum |-> Rack_dedendum(module),
         pitch |-> Rack_pitch(module),
         expr |-> expr,
         construction_sketch |->
             Rack_create_construction_sketch(expr.dedendum_expr,
                 number_of_teeth_value.expression, expr.pitch_expr, name),
         construction_sketch_isVisible |-> preview,
         tooth_extrude |-> Rack_extrude_tooth(gear_thickness_value.expression, name),
         tooth_pattern |->
             Rack_create_tooth_linear_pattern(number_of_teeth_value.expression,
                                              expr.pitch_expr, name),
         tooth_sketch |->
             Rack_create_tooth_sketch(expr.pitch_expr, expr.tooth_thickness_expr,
                 pressure_angle_value.expression, expr.height_expr,
                 expr.dedendum_expr, root_fillet_radius_value.expression, name),
         added |-> Rack_added]

----------------------------------------------------------------------------
(* The document, and the two create_component calls as actions.            *)

\* components a document may hold in the runs explored
MaxComponents == 2

EmptyDesign ==
    [components |-> 0, sketches |-> 0, extrudeFeatures |-> 0, names |-> {},
     attributes |-> <<>>]

AddToDesign(d, added, names) ==
    [components |-> d.components + added.components,
     sketches |-> d.sketches + added.sketches,
     extrudeFeatures |-> d.extrudeFeatures + added.extrudeFeatures,
     names |-> d.names \cup names,
     attributes |-> d.attributes]

NoFrame == [fn |-> "none"]

\* the inputs explored: pressure angles (radians), numbers of teeth,
\* modules, root fillet radii and backlashes (cm)
PressureAngles == { radians(d) : d \in Degrees }
NumbersOfTeeth == { RInt(1), RInt(9), RInt(12), RInt(20) }
Modules == { Rat(1, 2), Rat(1, 10), RInt(2) }
\* 0.4 * tooth thickness for a module, the largest root fillet radius allowed
RootFilletBound(module) == RMul(Rat(4, 10), RDiv(RMul(PI, module), RInt(2)))
RootFilletRadii == { Rat(1, 10), Rat(4, 10) } \cup { RootFilletBound(m) : m \in Modules }
Backlashes == { RInt(0), Rat(1, 100) }
ComponentNames == { None, <<"Gear", "1">> }

\* the command inputs handed to create_component, all of them valid
Dialogs ==
    { [name |-> name,
       pressureAngle |-> ValueCommandInput(pa),
       numberOfTeeth |-> ValueCommandInput(n),
       module |-> ValueCommandInput(m),
       rootFilletRadius |-> ValueCommandInput(rfr),
       thickness |-> ValueCommandInput(Rat(1, 2)),
       backlash |-> ValueCommandInput(bl)] :
         name \in ComponentNames, pa \in PressureAngles, n \in NumbersOfTeeth,
         m \in Modules, rfr \in RootFilletRadii, bl \in Backlashes }

SpurGear_create_component(preview) ==
    /\ design.components < MaxComponents
    /\ frame' = SpurGear_locals(dialog.pressureAngle, dialog.numberOfTeeth,
                                dialog.module, dialog.rootFilletRadius,
                                dialog.backlash, preview, dialog.name)
    /\ design' = AddToDesign(design, SpurGear_added(preview),
                             SpurGear_names(preview, dialog.name))
    /\ UNCHANGED <<dialog, areInputsValid, error_message, sketch, tooth, ui>>

Rack_create_component(preview) ==
    /\ design.components < MaxComponents
    /\ frame' = Rack_locals(dialog.pressureAngle, dialog.numberOfTeeth,
                            dialog.module, dialog.rootFilletRadius,
                            dialog.thickness, dialog.backlash, preview, dialog.name)
    /\ design' = AddToDesign(design, Rack_added, Rack_names(dialog.name))
    /\ UNCHANGED <<dialog, areInputsValid, error_message, sketch, tooth, ui>>

Init ==
    /\ ui = NoUI
    /\ frame = NoFrame
    /\ design = EmptyDesign
    /\ dialog \in Dialogs
    /\ areInputsValid = "unset"
    /\ error_message = ""
    /\ sketch = NoSketch
    /\ tooth = NoTooth

\* spur_gear/entry.py:312-320: the spur gear command's validation reads the
\* pressure angle input alone
spur_gear_command_validate_input ==
    /\ areInputsValid' = IF RGe(dialog.pressureAngle.value, RInt(0)) THEN "True" ELSE "False"
    /\ UNCHANGED <<frame, design, dialog, error_message, sketch, tooth, ui>>

CreateSpurGear == \E preview \in BOOLEAN : SpurGear_create_component(preview)

CreateRack == \E preview \in BOOLEAN : Rack_create_component(preview)

Next == CreateSpurGear \/ CreateRack \/ spur_gear_command_validate_input

Spec == Init /\ [][Next]_vars

----------------------------------------------------------------------------
(* lib/fusion360utils/general_utils.py: names.  A name is a sequence of    *)
(* tokens: a word of letters, one digit, "_", or a character no identifier *)
(* holds (" ", "-").                                                       *)

Digits == {"0", "1", "2", "3", "4", "5", "6", "7", "8", "9"}
NonIdentifierChars == {" ", "-"}

\* str.startswith
StartsWith(str, prefix) ==
    /\ Len(prefix) <= Len(str)
    /\ SubSeq(str, 1, Len(prefix)) = prefix

\* general_utils.py:135-145
find_names_with_prefix(d, prefix) == { n \in d.names : StartsWith(n, prefix) }

\* general_utils.py:127-128
is_name_taken(d, prefix) == Cardinality(find_names_with_prefix(d, prefix)) > 0

\* general_utils.py:131-132, str.isidentifier
is_valid_name(name) ==
    /\ Len(name) > 0
    /\ name[1] \notin Digits
    /\ \A i \in 1..Len(name) : name[i] \notin NonIdentifierChars

\* a proposed name refused only when a name of the design is that very name
find_next_name_is_valid_name_exact(matching_names, local_proposed_name) ==
    \A matching_name \in matching_names : matching_name # local_proposed_name
\* general_utils.py:113-117, _is_valid_name
find_next_name_is_valid_name(matching_names, local_proposed_name) ==
    \A matching_name \in matching_names : ~StartsWith(matching_name, local_proposed_name)

\* general_utils.py:119: range(1, 100000)
range_stop == 100000

\* general_utils.py:119-124: the loop from i on
RECURSIVE find_next_name_loop(_, _, _)
find_next_name_loop(matching_names, prefix, i) ==
    IF i >= range_stop THEN None
    ELSE LET proposed_name == prefix \o format_int(i)
         IN  IF find_next_name_is_valid_name(matching_names, proposed_name)
             THEN proposed_name
             ELSE find_next_name_loop(matching_names, prefix, i + 1)

\* general_utils.py:110-124
find_next_name(d, prefix) ==
    find_next_name_loop(find_names_with_prefix(d, prefix), prefix, 1)

\* a call of find_next_name on the document
call_find_next_name ==
    /\ frame = NoFrame
    /\ \E prefix \in {<<"Rack">>, <<"Gear">>, <<"Rack", "1">>} :
         frame' = [fn |-> "find_next_name",
                   prefix |-> prefix,
                   returned |-> find_next_name(design, prefix)]
    /\ UNCHANGED <<design, dialog, areInputsValid, error_message, sketch, tooth, ui>>

\* the document that holds racks of the given names, each with its two
\* sketches and its extrusion
DesignOfRacks(names) ==
    [components |-> Cardinality(names),
     sketches |-> 2 * Cardinality(names),
     extrudeFeatures |-> Cardinality(names),
     names |-> UNION { Rack_names(n) : n \in names },
     attributes |-> <<>>]

\* the documents explored: any of six components, and documents where every
\* one-digit name is in use
NamedDesigns ==
    LET few == { <<"Rack", "1">>, <<"Rack", "2">>, <<"Rack", "3">>, <<"Rack", "1", "0">>,
                 <<"Gear", "1">>, <<"preview", "_", "Rack", "1">> }
        Upto(a, b) == { <<"Rack">> \o format_int(i) : i \in a..b }
    IN  { DesignOfRacks(names) : names \in SUBSET few }
          \cup { DesignOfRacks(Upto(1, 9)), DesignOfRacks(Upto(1, 10)),
                 DesignOfRacks(Upto(2, 10)), DesignOfRacks(Upto(1, 12)) }

InitNames ==
    /\ ui = NoUI
    /\ frame = NoFrame
    /\ design \in NamedDesigns
    /\ dialog = [name |-> None]
    /\ areInputsValid = "unset"
    /\ error_message = ""
    /\ sketch = NoSketch
    /\ tooth = NoTooth

NextNames == call_find_next_name

SpecNames == InitNames /\ [][NextNames]_vars

----------------------------------------------------------------------------
(* commands/rack/entry.py: command_validate_input                          *)

\* a slip: >= for >, which rejects the bound itself
root_fillet_radius_is_too_large_ge(root_fillet_radius, tooth_thickness) ==
    RGe(root_fillet_radius, RMul(tooth_thickness, Rat(4, 10)))
\* rack/entry.py:293
root_fillet_radius_is_too_large(root_fillet_radius, tooth_thickness) ==
    RGt(root_fillet_radius, RMul(tooth_thickness, Rat(4, 10)))

\* the outcome of one validation: rack/entry.py:227-302, the checks in the
\* order of the code, the first that fails deciding
rack_validation(inputs, d) ==
    LET name_value == inputs.name
        pressure_angle_value == inputs.pressureAngle
        number_of_teeth_value == inputs.numberOfTeeth
        module_value == inputs.module
        root_fillet_radius_value == inputs.rootFilletRadius
        thickness_value == inputs.thickness
        backlash_value == inputs.backlash
        NotValid(i) == ~i.isValid \/ ~i.isValidExpression
        pitch == RMul(PI, module_value.value)
        tooth_thickness == RDiv(pitch, RInt(2))
        Reject(text) == [areInputsValid |-> "False", text |-> text]
    IN  IF Len(name_value) = 0 THEN Reject("Name is required")
        ELSE IF ~is_valid_name(name_value)
        THEN Reject("Name must only contain letters, numbers, underscores, no spaces")
        ELSE IF is_name_taken(d, name_value \o <<"_">>) THEN Reject("Name already found")
        ELSE IF RLt(pressure_angle_value.value, radians(0))
        THEN Reject("Pressure angle must be greater than 0")
        ELSE IF RGt(pressure_angle_value.value, radians(45))
        THEN Reject("Pressure angle must be less than than 45 degrees")
        ELSE IF NotValid(pressure_angle_value) THEN Reject("Pressure angle is not valid")
        ELSE IF RLt(number_of_teeth_value.value, RInt(1))
        THEN Reject("Number of teeth must be greater than 0")
        ELSE IF NotValid(number_of_teeth_value) THEN Reject("Number of teeth is not valid")
        ELSE IF NotValid(root_fillet_radius_value)
        THEN Reject("Root fillet radius is not valid")
        ELSE IF NotValid(module_value) THEN Reject("Module is not valid")
        ELSE IF NotValid(thickness_value) THEN Reject("Thickness is not valid")
        ELSE IF NotValid(backlash_value) THEN Reject("Backlash is not valid")
        ELSE IF root_fillet_radius_is_too_large(root_fillet_radius_value.value, tooth_thickness)
        \* the text ends with the bound as the host formats it in the dialog's units
        THEN Reject("Root fillet radius is too large. It must be less than {max_value}")
        ELSE [areInputsValid |-> "True", text |-> ""]

\* a validation that leaves the message alone when every check passes
rack_command_validate_input_keeps_message ==
    /\ areInputsValid' = rack_validation(dialog, design).areInputsValid
    /\ error_message' = IF rack_validation(dialog, design).areInputsValid = "True"
                        THEN error_message
                        ELSE rack_validation(dialog, design).text
    /\ UNCHANGED <<frame, design, dialog, sketch, tooth, ui>>
\* rack/entry.py:214-305
rack_command_validate_input ==
    /\ areInputsValid' = rack_validation(dialog, design).areInputsValid
    /\ error_message' = rack_validation(dialog, design).text
    /\ UNCHANGED <<frame, design, dialog, sketch, tooth, ui>>

\* how many inputs of a dialog the host flags as not valid
MaxInvalidInputs == 1

ValueInputIds ==
    {"pressureAngle", "numberOfTeeth", "module", "rootFilletRadius", "thickness", "backlash"}

\* the host's flags <<isValid, isValidExpression>> of the value inputs
InputFlags ==
    { f \in [ValueInputIds -> {<<TRUE, TRUE>>, <<FALSE, TRUE>>, <<TRUE, FALSE>>}] :
        Cardinality({ i \in ValueInputIds : f[i] # <<TRUE, TRUE>> }) <= MaxInvalidInputs }

FlaggedInput(v, flags) ==
    [expression |-> Num(v), value |-> v, isValid |-> flags[1], isValidExpression |-> flags[2]]

RackNames == { <<>>, <<"my", " ", "rack">>, <<"Rack", "1">>, <<"Rack", "2">> }
RackNumbersOfTeeth == { RInt(0), RInt(1), RInt(10) }
RackModules == { Rat(1, 2), Rat(1, 10) }
RackRootFilletRadii == { Rat(1, 10), Rat(4, 10) } \cup { RootFilletBound(m) : m \in RackModules }

\* the rack dialogs explored (thickness 5 mm, no backlash)
RackDialogs ==
    { [name |-> name,
       pressureAngle |-> FlaggedInput(pa, f["pressureAngle"]),
       numberOfTeeth |-> FlaggedInput(n, f["numberOfTeeth"]),
       module |-> FlaggedInput(m, f["module"]),
       rootFilletRadius |-> FlaggedInput(rfr, f["rootFilletRadius"]),
       thickness |-> FlaggedInput(Rat(1, 2), f["thickness"]),
       backlash |-> FlaggedInput(RInt(0), f["backlash"])] :
         name \in RackNames, pa \in PressureAngles, n \in RackNumbersOfTeeth,
         m \in RackModules, rfr \in RackRootFilletRadii, f \in InputFlags }

\* a document that holds no rack, or the rack Rack1
RackDesigns == { EmptyDesign, AddToDesign(EmptyDesign, Rack_added, Rack_names(<<"Rack", "1">>)) }

InitRack ==
    /\ ui = NoUI
    /\ frame = NoFrame
    /\ design \in RackDesigns
    /\ dialog \in RackDialogs
    /\ areInputsValid = "unset"
    /\ error_message = ""
    /\ sketch = NoSketch
    /\ tooth = NoTooth

NextRack == rack_command_validate_input

SpecRack == InitRack /\ [][NextRack]_vars

----------------------------------------------------------------------------
(* mirror_sketch_spline applied, again and again, to the splines of a      *)
(* sketch that starts with one mirror line and one fitted spline.          *)

NoDialog == [name |-> None]

InitMirror ==
    /\ ui = NoUI
    /\ frame = NoFrame
    /\ design = EmptyDesign
    /\ dialog = NoDialog
    /\ areInputsValid = "unset"
    /\ error_message = ""
    /\ sketch \in { [mirror_line |-> l, sketchFittedSplines |-> <<sp>>,
                     symmetry |-> {}, raised |-> "none"] :
                       l \in MirrorLines, sp \in Splines }
    /\ tooth = NoTooth

Mirror == \E i \in 1..MaxSplines : mirror_sketch_spline(i)

NextMirror == Mirror

SpecMirror == InitMirror /\ [][NextMirror]_vars

----------------------------------------------------------------------------
(* commands/spur_gear/spur_gear.py: the tooth of a non-preview             *)
(* SpurGear.create_component, in the steps of the call: the tooth profile  *)
(* sketch with its two flanks, the four profile searches of                *)
(* __extrude_tooth, each answered by the host, and the rotation and        *)
(* circular pattern of the extruded tooth.                                 *)

\* a profile of a sketch with the corners of its bounding box
Profile(id, x0, y0, x1, y1) ==
    [id |-> id,
     boundingBox |-> [minPoint |-> [x |-> x0, y |-> y0],
                      maxPoint |-> [x |-> x1, y |-> y1]]]

\* Python's None where a profile is expected
NoProfile == [id |-> "None"]

\* the profiles the host may report: the disc around the tooth, and two
\* regions of the tooth with bounding boxes of equal area
SketchProfiles ==
    { Profile("disc", -4, -4, 4, 4), Profile("a", 0, 0, 2, 1), Profile("b", 1, 0, 2, 2) }

\* profiles one search may find
MaxFoundProfiles == 3

\* general_utils.py:72-80: the lists find_profiles may return, the profiles
\* of the sketch that contain the curves, each once
FoundProfileLists ==
    { l \in UNION { [1..n -> SketchProfiles] : n \in 0..MaxFoundProfiles } :
        \A i, j \in 1..Len(l) : i # j => l[i] # l[j] }

\* general_utils.py:102-103
BoundingBoxArea(profile) ==
    Abs(profile.boundingBox.maxPoint.x - profile.boundingBox.minPoint.x)
        * Abs(profile.boundingBox.maxPoint.y - profile.boundingBox.minPoint.y)

\* a slip: <= for <, which keeps the last of the profiles of least area
IsSmallerProfile_or_equal(smallest_profile, smallest_profile_area, area) ==
    smallest_profile = NoProfile \/ area <= smallest_profile_area
\* general_utils.py:104
IsSmallerProfile(smallest_profile, smallest_profile_area, area) ==
    smallest_profile = NoProfile \/ area < smallest_profile_area

\* general_utils.py:101-106: the loop, from profile k on
RECURSIVE find_smallest_profile_loop(_, _, _, _)
find_smallest_profile_loop(profiles, k, smallest_profile, smallest_profile_area) ==
    IF k > Len(profiles) THEN smallest_profile
    ELSE LET area == BoundingBoxArea(profiles[k])
         IN  IF IsSmallerProfile(smallest_profile, smallest_profile_area, area)
             THEN find_smallest_profile_loop(profiles, k + 1, profiles[k], area)
             ELSE find_smallest_profile_loop(profiles, k + 1, smallest_profile,
                                             smallest_profile_area)

\* general_utils.py:98-107
find_smallest_profile(profiles) == find_smallest_profile_loop(profiles, 1, NoProfile, 0)

\* the inputs of the non-preview calls explored: a few for the steps of
\* __extrude_tooth and the pattern, more for the flanks
Rotations == { RInt(0), radians(15) }
ToothDialogs ==
    { [name |-> <<"Gear", "1">>,
       pressureAngle |-> ValueCommandInput(radians(20)),
       numberOfTeeth |-> ValueCommandInput(n),
       module |-> ValueCommandInput(Rat(1, 2)),
       rootFilletRadius |-> ValueCommandInput(Rat(1, 10)),
       backlash |-> ValueCommandInput(RInt(0)),
       rotation |-> ValueCommandInput(rot)] :
         n \in { RInt(1), RInt(9), RInt(12) }, rot \in Rotations }
FlankDialogs ==
    { [name |-> name,
       pressureAngle |-> ValueCommandInput(pa),
       numberOfTeeth |-> ValueCommandInput(n),
       module |-> ValueCommandInput(m),
       rootFilletRadius |-> ValueCommandInput(Rat(1, 10)),
       backlash |-> ValueCommandInput(bl),
       rotation |-> ValueCommandInput(RInt(0))] :
         name \in ComponentNames, pa \in { radians(20), radians(45) },
         n \in NumbersOfTeeth, m \in Modules, bl \in Backlashes }

\* spur_gear.py:12-221: the call up to __extrude_tooth: the component, the
\* circles sketch, the root circle's extrusion, the tooth profile sketch
\* with the two flanks, and the tooth sketch
SpurGear_create_tooth_profile ==
    /\ tooth.pc = "none"
    /\ frame' = SpurGear_locals(dialog.pressureAngle, dialog.numberOfTeeth,
                                dialog.module, dialog.rootFilletRadius,
                                dialog.backlash, FALSE, dialog.name)
    /\ design' = AddToDesign(design,
                     [components |-> 1, sketches |-> 3, extrudeFeatures |-> 1],
                     SpurGear_names(TRUE, dialog.name)
                         \cup {ParameterName(dialog.name, "rootFilletRadius", "5")})
    /\ LET expr == frame'.expr
           involute_curve_mirror_offset_angle_expr ==
               SpurGear_involute_curve_mirror_offset_angle_expr(
                   expr.half_tooth_thickness_expr, expr.root_diameter_expr,
                   expr.backlash_angle_expr)
       IN  tooth' =
             [pc |-> "root",
              involute_curve_mirror_offset_angle_expr |->
                  involute_curve_mirror_offset_angle_expr,
              spline |->
                  SpurGear_create_involute_curve(expr.base_diameter_expr,
                      involute_curve_mirror_offset_angle_expr,
                      tangent_line_count, tangent_line_interval_deg, TRUE),
              mirror_spline |->
                  SpurGear_create_involute_curve(expr.base_diameter_expr,
                      involute_curve_mirror_offset_angle_expr,
                      tangent_line_count, tangent_line_interval_deg, FALSE),
              rotation_expr |-> dialog.rotation.expression,
              searched |-> "none",
              found_profiles |-> <<>>,
              profiles |-> <<>>,
              raised |-> <<>>,
              bodies |-> <<>>]
    /\ UNCHANGED <<dialog, areInputsValid, error_message, sketch, ui>>

\* the searches of __extrude_tooth, in the order of the code
SearchAfter(shape) ==
    CASE shape = "root" -> "tip"
      [] shape = "tip" -> "fillet radius a"
      [] shape = "fillet radius a" -> "fillet radius b"
      [] shape = "fillet radius b" -> "rotation"

\* every search accepting one or two profiles
ExpectedProfiles_one_or_two(shape) == {1, 2}
\* spur_gear.py:520, 526, 532, 539: the numbers of profiles a search accepts
ExpectedProfiles(shape) == IF shape = "root" THEN {2} ELSE {1, 2}

\* spur_gear.py:521, 527, 533-535, 540-542: the exception's message
ExceptionMessage(shape, found) ==
    (IF shape = "root" THEN "expected 2 profile, found "
                       ELSE "expected 1 or 2 profile, found ")
        \o ToString(found) \o " for spur gear tooth (" \o shape \o ")"

\* spur_gear.py:502-553, __extrude_tooth: one search, its check and the
\* selection of the smallest profile found; after the last search the
\* four selected profiles are extruded as one new body
SpurGear_extrude_tooth(shape) ==
    /\ tooth.pc = shape
    /\ \E found_profiles \in FoundProfileLists :
        IF Len(found_profiles) \notin ExpectedProfiles(shape)
        THEN /\ tooth' = [tooth EXCEPT
                            !.pc = "raised",
                            !.searched = shape,
                            !.found_profiles = found_profiles,
                            !.raised = ExceptionMessage(shape, Len(found_profiles))]
             /\ UNCHANGED design
        ELSE LET profiles ==
                     Append(tooth.profiles, find_smallest_profile(found_profiles))
             IN  /\ tooth' = [tooth EXCEPT
                                !.pc = SearchAfter(shape),
                                !.searched = shape,
                                !.found_profiles = found_profiles,
                                !.profiles = profiles,
                                !.bodies =
                                    IF shape = "fillet radius b"
                                    THEN <<[feature |-> "tooth", index |-> 0,
                                            profiles |-> profiles,
                                            angle |-> RInt(0)]>>
                                    ELSE @]
                 /\ design' =
                        IF shape = "fillet radius b"
                        THEN AddToDesign(design,
                                 [components |-> 0, sketches |-> 0, extrudeFeatures |-> 1],
                                 {ParameterName(dialog.name, "tooth", "6")})
                        ELSE design
    /\ UNCHANGED <<frame, dialog, areInputsValid, error_message, sketch, ui>>

\* spur_gear.py:556-573, __create_tooth_rotation: the tooth's body turned
\* about the center axis by the rotation
SpurGear_create_tooth_rotation(bodies, rotation_expr) ==
    [k \in 1..Len(bodies) |->
        IF k = 1
        THEN [bodies[k] EXCEPT !.angle = RAdd(@, evaluateExpression(rotation_expr, {}))]
        ELSE bodies[k]]

\* a slip: one copy too few
SpurGear_create_tooth_circular_pattern_minus_one(bodies, number_of_teeth_expr) ==
    LET quantity == evaluateExpression(number_of_teeth_expr, {})[1] - 1
    IN  bodies \o
        [i \in 1..(quantity - 1) |->
            [feature |-> "toothCircularPattern", index |-> i,
             profiles |-> bodies[1].profiles,
             angle |-> RAdd(bodies[1].angle,
                            RMul(RInt(i), RDiv(radians(360), RInt(quantity))))]]
\* spur_gear.py:576-594, __create_tooth_circular_pattern: a circular pattern
\* of the tooth's body about the root circle's axis, its quantity the number
\* of teeth and its angle the host's default, the full circle; the host
\* places instance i at i * 360 deg / quantity from the body patterned
SpurGear_create_tooth_circular_pattern(bodies, number_of_teeth_expr) ==
    LET quantity == evaluateExpression(number_of_teeth_expr, {})[1]
    IN  bodies \o
        [i \in 1..(quantity - 1) |->
            [feature |-> "toothCircularPattern", index |-> i,
             profiles |-> bodies[1].profiles,
             angle |-> RAdd(bodies[1].angle,
                            RMul(RInt(i), RDiv(radians(360), RInt(quantity))))]]

\* spur_gear.py:238-256: the rotation, the circular pattern and the
\* timeline group that end the call
SpurGear_create_tooth_pattern ==
    /\ tooth.pc = "rotation"
    /\ tooth' = [tooth EXCEPT
                   !.pc = "done",
                   !.bodies =
                       SpurGear_create_tooth_circular_pattern(
                           SpurGear_create_tooth_rotation(tooth.bodies, tooth.rotation_expr),
                           frame.number_of_teeth_value.expression)]
    /\ UNCHANGED <<frame, design, dialog, areInputsValid, error_message, sketch, ui>>

InitTooth ==
    /\ ui = NoUI
    /\ frame = NoFrame
    /\ design = EmptyDesign
    /\ dialog \in ToothDialogs
    /\ areInputsValid = "True"
    /\ error_message = ""
    /\ sketch = NoSketch
    /\ tooth = NoTooth

ExtrudeTooth ==
    \E shape \in {"root", "tip", "fillet radius a", "fillet radius b"} :
        SpurGear_extrude_tooth(shape)

NextTooth == SpurGear_create_tooth_profile \/ ExtrudeTooth \/ SpurGear_create_tooth_pattern

SpecTooth == InitTooth /\ [][NextTooth]_vars

\* find_smallest_profile on its own, for lists of more profiles
ProfileLists ==
    LET profiles == SketchProfiles
                      \cup { Profile("c", 0, 0, 0, 3), Profile("d", -1, -1, 0, 0) }
    IN  { l \in UNION { [1..n -> profiles] : n \in 0..MaxFoundProfiles } :
            \A i, j \in 1..Len(l) : i # j => l[i] # l[j] }

call_find_smallest_profile ==
    /\ tooth.pc = "find_smallest_profile"
    /\ tooth' = [pc |-> "returned",
                 profiles |-> tooth.profiles,
                 smallest_profile |-> find_smallest_profile(tooth.profiles)]
    /\ UNCHANGED <<frame, design, dialog, areInputsValid, error_message, sketch, ui>>

InitProfiles ==
    /\ ui = NoUI
    /\ frame = NoFrame
    /\ design = EmptyDesign
    /\ dialog = NoDialog
    /\ areInputsValid = "unset"
    /\ error_message = ""
    /\ sketch = NoSketch
    /\ tooth \in { [pc |-> "find_smallest_profile", profiles |-> l] : l \in ProfileLists }

NextProfiles == call_find_smallest_profile

SpecProfiles == InitProfiles /\ [][NextProfiles]_vars

\* the tooth profile sketch alone, for more inputs
InitFlanks ==
    /\ ui = NoUI
    /\ frame = NoFrame
    /\ design = EmptyDesign
    /\ dialog \in FlankDialogs
    /\ areInputsValid = "True"
    /\ error_message = ""
    /\ sketch = NoSketch
    /\ tooth = NoTooth

NextFlanks == SpurGear_create_tooth_profile

SpecFlanks == InitFlanks /\ [][NextFlanks]_vars

----------------------------------------------------------------------------
(* Claims about the derived diameters (Spec).                              *)

IsSpurGear == frame.fn = "SpurGear.create_component"
IsRack == frame.fn = "Rack.create_component"

\* the numeric value the host gives an expression of the last call
ExprValue(e) == evaluateExpression(e, frame.expr.parameters)

\* C1: for number_of_teeth >= 1 and module > 0 the numeric outside_diameter
\* of SpurGear.create_component is pitch_diameter + 2*module, that is
\* (number_of_teeth + 2) * module.
C1_OutsideDiameter ==
    (IsSpurGear /\ RGe(frame.number_of_teeth, RInt(1)) /\ RGt(frame.module, RInt(0)))
        => /\ frame.outside_diameter
                = RAdd(frame.pitch_diameter, RMul(RInt(2), frame.module))
           /\ frame.outside_diameter
                = RMul(RAdd(frame.number_of_teeth, RInt(2)), frame.module)

\* the parameters the validation accepts: number_of_teeth >= 1, module > 0,
\* 0 < pressure_angle <= 45 deg
AcceptedParameters ==
    /\ RGe(frame.number_of_teeth, RInt(1))
    /\ RGt(frame.module, RInt(0))
    /\ RGt(frame.pressure_angle, RInt(0))
    /\ RLe(frame.pressure_angle, radians(45))

\* C2: for accepted parameters the diameters of SpurGear.create_component
\* satisfy root_diameter < base_diameter <= pitch_diameter < outside_diameter.
C2_DiameterOrder ==
    (IsSpurGear /\ AcceptedParameters)
        => /\ RLt(frame.root_diameter, frame.base_diameter)
           /\ RLe(frame.base_diameter, frame.pitch_diameter)
           /\ RLt(frame.pitch_diameter, frame.outside_diameter)

\* C3: in both create_component functions dedendum = 1.25*module,
\* pitch = pi*module and tooth_thickness = pitch/2; in the spur gear's also
\* pitch_diameter = number_of_teeth*module, root_diameter = pitch_diameter -
\* 2*dedendum and base_diameter = pitch_diameter*cos(pressure_angle); module
\* 5 mm, 20 teeth, 20 deg give 100 mm, 6.25 mm and 87.5 mm.
C3_DerivedQuantities ==
    /\ (IsSpurGear \/ IsRack) =>
          /\ frame.dedendum = RMul(Rat(5, 4), frame.module)
          /\ frame.pitch = RMul(PI, frame.module)
          /\ ExprValue(frame.expr.tooth_thickness_expr) = RDiv(frame.pitch, RInt(2))
    /\ IsSpurGear =>
          /\ frame.tooth_thickness = RDiv(frame.pitch, RInt(2))
          /\ frame.pitch_diameter = RMul(frame.number_of_teeth, frame.module)
          /\ frame.root_diameter
               = RSub(frame.pitch_diameter, RAdd(frame.dedendum, frame.dedendum))
          /\ frame.base_diameter = RMul(frame.pitch_diameter, cos(frame.pressure_angle))
          /\ (/\ frame.module = Rat(1, 2)
              /\ frame.number_of_teeth = RInt(20)
              /\ frame.pressure_angle = radians(20))
                => /\ frame.pitch_diameter = RInt(10)
                   /\ frame.dedendum = Rat(625, 1000)
                   /\ frame.root_diameter = Rat(875, 100)

C3_Witness ==
    /\ IsSpurGear
    /\ frame.module = Rat(1, 2)
    /\ frame.number_of_teeth = RInt(20)
    /\ frame.pressure_angle = radians(20)
    /\ frame.root_diameter = Rat(875, 100)

\* C4: every derived quantity of SpurGear.create_component that has a numeric
\* value and an expression has the value its expression evaluates to.
C4_NumericEqualsExpression ==
    IsSpurGear =>
        /\ frame.dedendum = ExprValue(frame.expr.dedendum_expr)
        /\ frame.pitch = ExprValue(frame.expr.pitch_expr)
        /\ frame.tooth_thickness = ExprValue(frame.expr.tooth_thickness_expr)
        /\ frame.pitch_diameter = ExprValue(frame.expr.pitch_diameter_expr)
        /\ frame.root_diameter = ExprValue(frame.expr.root_diameter_expr)
        /\ frame.base_diameter = ExprValue(frame.expr.base_diameter_expr)
        /\ frame.outside_diameter = ExprValue(frame.expr.outside_diameter_expr)

\* C6: a spur gear request whose root_fillet_radius exceeds
\* 0.4 * tooth_thickness is rejected before any geometry exists: the spur gear
\* command's validation does not accept it, and SpurGear.create_component adds
\* no component, sketch or extrusion.
RootFilletTooLarge(module, root_fillet_radius) ==
    RGt(root_fillet_radius, RMul(Rat(4, 10), RDiv(RMul(PI, module), RInt(2))))

C6_RejectedBeforeConstruction ==
    /\ (/\ areInputsValid # "unset"
        /\ RootFilletTooLarge(dialog.module.value, dialog.rootFilletRadius.value))
          => areInputsValid = "False"
    /\ (IsSpurGear /\ RootFilletTooLarge(frame.module, frame.root_fillet_radius_value.value))
          => /\ frame.added.components = 0
             /\ frame.added.sketches = 0
             /\ frame.added.extrudeFeatures = 0
             /\ design = EmptyDesign

----------------------------------------------------------------------------
(* Claims about the rack command's validation (SpecRack).                  *)

Validated == areInputsValid # "unset"

\* every check before the root fillet bound passes
EarlierChecksPass ==
    /\ Len(dialog.name) > 0
    /\ is_valid_name(dialog.name)
    /\ ~is_name_taken(design, dialog.name \o <<"_">>)
    /\ RGe(dialog.pressureAngle.value, RInt(0))
    /\ RLe(dialog.pressureAngle.value, radians(45))
    /\ RGe(dialog.numberOfTeeth.value, RInt(1))
    /\ \A i \in ValueInputIds : dialog[i].isValid /\ dialog[i].isValidExpression

\* C5: when all earlier checks pass, the rack validation rejects with the
\* 'Root fillet radius is too large' message exactly when root_fillet_radius >
\* 0.4 * (pi * module / 2) and accepts otherwise, equality included; with
\* module 5 mm, 1 mm is accepted and 4 mm rejected.
C5_RootFilletBound ==
    (Validated /\ EarlierChecksPass) =>
        LET bound == RMul(Rat(2, 5), RDiv(RMul(PI, dialog.module.value), RInt(2)))
            rfr == dialog.rootFilletRadius.value
        IN  /\ RGt(rfr, bound) =>
                /\ areInputsValid = "False"
                /\ error_message
                     = "Root fillet radius is too large. It must be less than {max_value}"
            /\ RLe(rfr, bound) => areInputsValid = "True" /\ error_message = ""
            /\ (dialog.module.value = Rat(1, 2) /\ rfr = Rat(1, 10)) => areInputsValid = "True"
            /\ (dialog.module.value = Rat(1, 2) /\ rfr = Rat(4, 10)) => areInputsValid = "False"

C5_Witness ==
    /\ Validated
    /\ EarlierChecksPass
    /\ dialog.module.value = Rat(1, 2)
    /\ dialog.rootFilletRadius.value = RMul(Rat(2, 5), RDiv(RMul(PI, Rat(1, 2)), RInt(2)))
    /\ areInputsValid = "True"

\* C7: the rack validation rejects, with a non-empty message, every input
\* whose pressure angle is outside (0 deg, 45 deg] or whose number_of_teeth is
\* below 1, and accepts only inputs with 0 < pressure_angle <= 45 deg and
\* number_of_teeth >= 1.
C7_AngleAndTeethChecked ==
    Validated =>
        LET inRange == /\ RGt(dialog.pressureAngle.value, RInt(0))
                       /\ RLe(dialog.pressureAngle.value, radians(45))
                       /\ RGe(dialog.numberOfTeeth.value, RInt(1))
        IN  /\ ~inRange => (areInputsValid = "False" /\ error_message # "")
            /\ areInputsValid = "True" => inRange

----------------------------------------------------------------------------
(* Claims about mirror_sketch_spline (SpecMirror).                         *)

\* the rational x or y of a sketch point, every such value being rational
Coordinate(u) == u.r

NonDegenerate ==
    \/ sketch.mirror_line.startSketchPoint.x # sketch.mirror_line.endSketchPoint.x
    \/ sketch.mirror_line.startSketchPoint.y # sketch.mirror_line.endSketchPoint.y

\* the pairs <<p, p'>> of a fit point and its mirror image in the sketch
MirroredPairs ==
    UNION { { <<sketch.sketchFittedSplines[c[1]][j], sketch.sketchFittedSplines[c[2]][j]>> :
                j \in 1..Len(sketch.sketchFittedSplines[c[1]]) } : c \in sketch.symmetry }

\* the triples <<p, p', p''>> of a fit point mirrored twice across the line
TwiceMirrored ==
    UNION { { <<sketch.sketchFittedSplines[c[1][1]][j],
                sketch.sketchFittedSplines[c[1][2]][j],
                sketch.sketchFittedSplines[c[2][2]][j]>> :
                j \in 1..Len(sketch.sketchFittedSplines[c[1][1]]) } :
              c \in { x \in sketch.symmetry \X sketch.symmetry : x[1][2] = x[2][1] } }

\* C8: across a non-degenerate mirror line, reflecting a point of the line's
\* plane twice returns the point: reflect(reflect(p)) = p.
C8_MirrorTwice ==
    NonDegenerate =>
        \A t \in TwiceMirrored :
            /\ t[3].x = t[1].x
            /\ t[3].y = t[1].y
            /\ t[1].z = sketch.mirror_line.startSketchPoint.z => t[3] = t[1]

C8_Witness ==
    /\ NonDegenerate
    /\ \E t \in TwiceMirrored :
          /\ t[1].z = sketch.mirror_line.startSketchPoint.z
          /\ t[2].x # t[1].x
          /\ t[2].y # t[1].y

\* C9: for a non-degenerate mirror line the midpoint of p and its image p'
\* lies on the line a*x + b*y + c = 0, and p - p' is perpendicular to the
\* line's direction (x2 - x1, y2 - y1).
C9_MidpointAndPerpendicular ==
    NonDegenerate =>
        LET x1 == Coordinate(sketch.mirror_line.startSketchPoint.x)
            y1 == Coordinate(sketch.mirror_line.startSketchPoint.y)
            x2 == Coordinate(sketch.mirror_line.endSketchPoint.x)
            y2 == Coordinate(sketch.mirror_line.endSketchPoint.y)
            a == RSub(y2, y1)
            b == RSub(x1, x2)
            c == RSub(RNeg(RMul(a, x1)), RMul(b, y1))
        IN  \A pq \in MirroredPairs :
                LET px == Coordinate(pq[1].x)
                    py == Coordinate(pq[1].y)
                    qx == Coordinate(pq[2].x)
                    qy == Coordinate(pq[2].y)
                    mx == RDiv(RAdd(px, qx), RInt(2))
                    my == RDiv(RAdd(py, qy), RInt(2))
                IN  /\ pq[2].x.s = RInt(0)
                    /\ pq[2].y.s = RInt(0)
                    /\ RAdd(RAdd(RMul(a, mx), RMul(b, my)), c) = RInt(0)
                    /\ RAdd(RMul(RSub(px, qx), RSub(x2, x1)),
                            RMul(RSub(py, qy), RSub(y2, y1))) = RInt(0)

C9_Witness ==
    /\ NonDegenerate
    /\ \E pq \in MirroredPairs : pq[2].x # pq[1].x /\ pq[2].y # pq[1].y

\* C10: every mirrored point has the z-coordinate of the fit point it mirrors,
\* whatever the z-coordinate of the mirror line's end points.
C10_ZPassedThrough == \A pq \in MirroredPairs : pq[2].z = pq[1].z

----------------------------------------------------------------------------
(* The involute flanks of the spur gear tooth, read from the dimensions    *)
(* that hold them in the tooth profile sketch.                             *)

\* a/b < c/d for a, c >= 0 and b, d > 0, by the continued fractions of the
\* two (no product of the four is formed)
RECURSIVE FracLess(_, _, _, _)
FracLess(a, b, c, d) ==
    IF a \div b # c \div d THEN a \div b < c \div d
    ELSE IF c % d = 0 THEN FALSE
    ELSE IF a % b = 0 THEN TRUE
    ELSE FracLess(d, c % d, b, a % b)

\* p < q and p <= q for rationals p, q >= 0
RLess(p, q) == FracLess(p[1], p[2], q[1], q[2])
RLessEq(p, q) == ~RLess(q, p)

HasFlanks == tooth.pc # "none"
Flanks == {tooth.spline, tooth.mirror_spline}

\* the angle between a sample's radius line and the first radius line of
\* its flank, and the length of its tangent line (the first sample is the
\* end of the first radius line itself)
AngleFromFirst(sample) ==
    IF sample.radius_line.dimensioned_from = "radius_lines[0]"
    THEN ExprValue(sample.radius_line.expression) ELSE RInt(0)
TangentLength(sample) ==
    IF sample.point = "tangent_line.endSketchPoint"
    THEN ExprValue(sample.tangent_line.expression) ELSE RInt(0)

BaseRadius == RDiv(ExprValue(frame.expr.base_diameter_expr), RInt(2))

\* (distance from the gear center / base radius)^2 of a sample: the tangent
\* line is perpendicular to the radius line at the base circle, so the
\* distance squared is (base_diameter/2)^2 + tangent_length^2
RelativeDistanceSquared(sample) ==
    LET t == RDiv(TangentLength(sample), BaseRadius)
    IN  RAdd(RInt(1), RMul(t, t))

\* C11: in each flank built by SpurGear.__create_involute_curve with K = 10
\* samples, the distance of sample i from the gear center is strictly
\* increasing in i, and so are the tangent lengths, starting from 0.
C11_RadiusIncreasing ==
    HasFlanks =>
        \A flank \in Flanks :
            /\ Len(flank) = tangent_line_count
            /\ TangentLength(flank[1]) = RInt(0)
            /\ \A i \in 1..(Len(flank) - 1) :
                /\ RLess(TangentLength(flank[i]), TangentLength(flank[i + 1]))
                /\ RLess(RelativeDistanceSquared(flank[i]),
                         RelativeDistanceSquared(flank[i + 1]))

C11_Witness ==
    /\ HasFlanks
    /\ Len(tooth.spline) = 10
    /\ RLess(RInt(1), RelativeDistanceSquared(tooth.spline[10]))
    /\ RLess(RelativeDistanceSquared(tooth.spline[9]),
             RelativeDistanceSquared(tooth.spline[10]))

\* C14: for every sample index i = 0..K-1 (K = 10, step = 5 deg) the i-th
\* radius line is at angle i * step from the first radius line and the i-th
\* sample lies at distance i * pi * base_diameter * (step / 360) along the
\* tangent from its point of tangency.
C14_SampleIndex ==
    HasFlanks =>
        \A flank \in Flanks :
            \A i \in 0..(tangent_line_count - 1) :
                /\ AngleFromFirst(flank[i + 1]) = radians(i * tangent_line_interval_deg)
                /\ TangentLength(flank[i + 1])
                     = RMul(RMul(RMul(RInt(i), PI), ExprValue(frame.expr.base_diameter_expr)),
                            Rat(tangent_line_interval_deg, 360))

\* C15: for every sample of a flank the tangent length is the arc of the
\* base circle between the first sample's radius line and the sample's
\* radius line, (angle / 360 deg) * pi * base_diameter, the first sample
\* being at angle 0 and length 0.
C15_TangentIsArc ==
    HasFlanks =>
        \A flank \in Flanks :
            /\ AngleFromFirst(flank[1]) = RInt(0)
            /\ TangentLength(flank[1]) = RInt(0)
            /\ \A k \in 1..Len(flank) :
                TangentLength(flank[k])
                  = RMul(RMul(RDiv(AngleFromFirst(flank[k]), radians(360)), PI),
                         ExprValue(frame.expr.base_diameter_expr))

C15_Witness ==
    /\ HasFlanks
    /\ frame.number_of_teeth = RInt(20)
    /\ frame.module = Rat(1, 2)
    /\ frame.pressure_angle = radians(20)
    /\ AngleFromFirst(tooth.spline[10]) = radians(50)
    /\ TangentLength(tooth.spline[10])
         = RMul(RMul(Rat(50, 360), PI), Rat(94, 10))

\* the angle of the first radius line of a flank from the mirror line
OffsetAngle(flank) == ExprValue(flank[1].radius_line.expression)

\* (half_tooth_thickness / (pi * root_diameter)) * 360 deg with
\* half_tooth_thickness = pi * module / 4
UncorrectedOffsetAngle ==
    RMul(RDiv(RDiv(RMul(PI, frame.module), RInt(4)), RMul(PI, frame.root_diameter)),
         radians(360))

\* (backlash / 4 / (pi * pitch_diameter)) * 360 deg
BacklashAngle ==
    RMul(RDiv(RDiv(frame.backlash_value.value, RInt(4)), RMul(PI, frame.pitch_diameter)),
         radians(360))

\* C16 as stated: for every input, whatever the backlash, the first sample
\* of each flank is (half_tooth_thickness / (pi * root_diameter)) * 360 deg
\* from the tooth symmetry line.
C16_OffsetAngle_AsStated ==
    HasFlanks =>
        \A flank \in Flanks :
            /\ flank[1].radius_line.dimensioned_from = "involute_curve_mirror_line"
            /\ OffsetAngle(flank) = UncorrectedOffsetAngle

\* C16 amended: the first sample of each flank is
\* (half_tooth_thickness / (pi * root_diameter)) * 360 deg minus the backlash
\* angle (backlash / 4 / (pi * pitch_diameter)) * 360 deg from the tooth
\* symmetry line, which is the stated angle exactly when backlash = 0.
C16_OffsetAngle ==
    HasFlanks =>
        \A flank \in Flanks :
            /\ flank[1].radius_line.dimensioned_from = "involute_curve_mirror_line"
            /\ OffsetAngle(flank) = RSub(UncorrectedOffsetAngle, BacklashAngle)
            /\ (OffsetAngle(flank) = UncorrectedOffsetAngle)
                 <=> (frame.backlash_value.value = RInt(0))

C16_Witness ==
    /\ HasFlanks
    /\ frame.backlash_value.value = Rat(1, 100)
    /\ frame.number_of_teeth = RInt(20)
    /\ RLt(OffsetAngle(tooth.spline), UncorrectedOffsetAngle)
    /\ RLt(RInt(0), OffsetAngle(tooth.spline))

\* C17: for accepted parameters the samples of each flank run from a point
\* on the base circle to a last sample at least outside_diameter / 2 from
\* the center.
C17_ReachesOutsideCircle ==
    (HasFlanks /\ AcceptedParameters) =>
        \A flank \in Flanks :
            LET outside == RDiv(ExprValue(frame.expr.outside_diameter_expr),
                                ExprValue(frame.expr.base_diameter_expr))
            IN  /\ RelativeDistanceSquared(flank[1]) = RInt(1)
                /\ RLessEq(RMul(outside, outside),
                           RelativeDistanceSquared(flank[Len(flank)]))

\* the side of the mirror line a line is drawn on: +1 above, -1 below
Side(line) == IF line.y > 0 THEN 1 ELSE -1

\* the angle of a sample's radius line from the mirror line,
\* counterclockwise positive: the first radius line is turned from the
\* mirror line to the side it is drawn on, the others from the first to
\* the side they are drawn on
RadiusLineAngle(flank, k) ==
    LET first == RMul(RInt(Side(flank[1].radius_line)), OffsetAngle(flank))
    IN  IF k = 1 THEN first
        ELSE RAdd(first, RMul(RInt(Side(flank[k].radius_line)), AngleFromFirst(flank[k])))

\* C18: the two flanks have the same number of samples, and sample i of the
\* second is sample i of the first reflected across the horizontal mirror
\* line through the center: the radius line at the opposite angle, the same
\* tangent length, the tangent drawn to the opposite side.
C18_FlanksMirrored ==
    HasFlanks =>
        /\ Len(tooth.spline) = Len(tooth.mirror_spline)
        /\ \A k \in 1..Len(tooth.spline) :
            /\ tooth.mirror_spline[k].point = tooth.spline[k].point
            /\ RadiusLineAngle(tooth.mirror_spline, k)
                 = RNeg(RadiusLineAngle(tooth.spline, k))
            /\ TangentLength(tooth.mirror_spline[k]) = TangentLength(tooth.spline[k])
            /\ k > 1 => tooth.mirror_spline[k].tangent_line.y
                          = -tooth.spline[k].tangent_line.y

C18_Witness ==
    /\ HasFlanks
    /\ frame.number_of_teeth = RInt(20)
    /\ frame.backlash_value.value = RInt(0)
    /\ RLt(RadiusLineAngle(tooth.spline, 1), RInt(0))
    /\ RLt(RInt(0), RadiusLineAngle(tooth.mirror_spline, 1))
    /\ RLt(RInt(0), RadiusLineAngle(tooth.spline, 10))
    /\ tooth.spline[10].tangent_line.y = -1

----------------------------------------------------------------------------
(* commands/spur_gear/entry.py: command_run, the spur gear command that    *)
(* commands/__init__.py registers.                                          *)

\* spur_gear/entry.py:114-140, the locals of one run
spur_gear_command_run_locals(pressure_angle_value, number_of_teeth_value, module_value, gear_height_value) ==
    LET pressure_angle == evaluateExpression(pressure_angle_value.expression, {})
        number_of_teeth == evaluateExpression(number_of_teeth_value.expression, {})
        module == evaluateExpression(module_value.expression, {})
        gear_height == evaluateExpression(gear_height_value.expression, {})
        pitch_diameter == RMul(number_of_teeth, module)
        addendum == module
        base_diameter == RMul(pitch_diameter, cos(pressure_angle))
        dedendum == RSub(pitch_diameter, base_diameter)
        root_diameter == RSub(pitch_diameter, RMul(RInt(2), dedendum))
        outside_diameter == RMul(RAdd(number_of_teeth, RInt(2)), module)
        circular_pitch == RMul(module, PI)
        diametral_pitch_expr == Div(Num(RInt(1)), module_value.expression)
        pitch_diameter_expr == Mul(number_of_teeth_value.expression, module_value.expression)
        base_diameter_expr == Mul(pitch_diameter_expr, CosOf(pressure_angle_value.expression))
        base_circumference_expr == Mul(Pi, base_diameter_expr)
    IN  [fn |-> "spur_gear.entry.command_run",
         pressure_angle |-> pressure_angle,
         number_of_teeth |-> number_of_teeth,
         module |-> module,
         gear_height |-> gear_height,
         pitch_diameter |-> pitch_diameter,
         addendum |-> addendum,
         base_diameter |-> base_diameter,
         dedendum |-> dedendum,
         root_diameter |-> root_diameter,
         outside_diameter |-> outside_diameter,
         circular_pitch |-> circular_pitch,
         diametral_pitch_expr |-> diametral_pitch_expr,
         pitch_diameter_expr |-> pitch_diameter_expr,
         base_diameter_expr |-> base_diameter_expr,
         base_radius_expr |-> Div(base_diameter_expr, Num(RInt(2))),
         root_diameter_expr |->
             Sub(Mul(number_of_teeth_value.expression, module_value.expression),
                 Mul(Num(RInt(2)),
                     Div(Num(Rat(125, 100)), Div(Num(RInt(1)), module_value.expression)))),
         outside_diameter_expr |->
             Div(Add(number_of_teeth_value.expression, Num(RInt(2))),
                 Div(Num(RInt(1)), module_value.expression)),
         base_circumference_expr |-> base_circumference_expr,
         tooth_thickness_expr |->
             Div(base_circumference_expr,
                 Mul(number_of_teeth_value.expression, Num(RInt(2))))]

\* spur_gear/entry.py:102-297, command_run: a new component with the one
\* sketch that holds the circles and the tooth
spur_gear_command_run ==
    /\ design.components < MaxComponents
    /\ frame' = spur_gear_command_run_locals(dialog.pressureAngle, dialog.numberOfTeeth,
                                             dialog.module, dialog.gear_height)
    /\ design' = AddToDesign(design,
                             [components |-> 1, sketches |-> 1, extrudeFeatures |-> 0], {})
    /\ UNCHANGED <<dialog, areInputsValid, error_message, sketch, tooth, ui>>

\* spur_gear/entry.py:63-73: the four inputs of the command's dialog, here
\* under the names pressureAngle (pressure_angle), numberOfTeeth
\* (number_of_teeth), module and gear_height
EntryDialogs ==
    { [name |-> None,
       pressureAngle |-> ValueCommandInput(pa),
       numberOfTeeth |-> ValueCommandInput(n),
       module |-> ValueCommandInput(m),
       gear_height |-> ValueCommandInput(Rat(1, 2))] :
         pa \in PressureAngles, n \in NumbersOfTeeth, m \in Modules }

InitEntry ==
    /\ ui = NoUI
    /\ frame = NoFrame
    /\ design = EmptyDesign
    /\ dialog \in EntryDialogs
    /\ areInputsValid = "unset"
    /\ error_message = ""
    /\ sketch = NoSketch
    /\ tooth = NoTooth

NextEntry == spur_gear_command_run \/ spur_gear_command_validate_input

SpecEntry == InitEntry /\ [][NextEntry]_vars

----------------------------------------------------------------------------
(* YAGA.py, commands/__init__.py, commands/spur_gear/entry.py start and     *)
(* stop, lib/gear_drop_down: the add-in's command definition, its button    *)
(* and the Gear drop-down of the solid create panel.                        *)

\* spur_gear/entry.py:11
CMD_ID == "COMPANY_NAME_ADDIN_NAME_spurGear"
\* gear_drop_down/__init__.py:4
GEAR_DROP_DOWN_ID == "COMPANY_NAME_ADDIN_NAME_gear_drop_down_id"

\* calls of run and stop explored
MaxCalls == 5

\* ui.commandDefinitions.itemById(id): whether a definition has the id
HasCommandDefinition(u, id) ==
    \E k \in 1..Len(u.commandDefinitions) : u.commandDefinitions[k].id = id

\* command_definition.deleteMe() on the definition itemById returned, the
\* first with the id
DeleteCommandDefinition(u, id) ==
    LET first == CHOOSE k \in 1..Len(u.commandDefinitions) :
                    /\ u.commandDefinitions[k].id = id
                    /\ \A j \in 1..(k - 1) : u.commandDefinitions[j].id # id
    IN  [u EXCEPT !.commandDefinitions =
            SubSeq(@, 1, first - 1) \o SubSeq(@, first + 1, Len(@))]

\* gear_drop_down/__init__.py:8-15, get_gear_drop_down: the drop-down of
\* the panel, added when the panel has none
get_gear_drop_down(u) ==
    IF GEAR_DROP_DOWN_ID \in u.controls THEN u
    ELSE [u EXCEPT !.controls = @ \cup {GEAR_DROP_DOWN_ID},
                   !.gear_drop_down_controls = <<>>,
                   !.addDropDown_calls = @ + 1]

\* gear_drop_down.controls.itemById(id): whether a control has the id
HasCommandControl(u, id) ==
    \E k \in 1..Len(u.gear_drop_down_controls) : u.gear_drop_down_controls[k] = id

\* command_control.deleteMe() on the control itemById returned, the first
\* with the id
DeleteCommandControl(u, id) ==
    LET first == CHOOSE k \in 1..Len(u.gear_drop_down_controls) :
                    /\ u.gear_drop_down_controls[k] = id
                    /\ \A j \in 1..(k - 1) : u.gear_drop_down_controls[j] # id
    IN  [u EXCEPT !.gear_drop_down_controls =
            SubSeq(@, 1, first - 1) \o SubSeq(@, first + 1, Len(@))]

\* gear_drop_down.controls.addCommand(command_definition): a control for
\* the definition; where the drop-down already holds a control of that id
\* the host either adds another or keeps the one it has (adds_again)
addCommand(u, id, adds_again) ==
    IF HasCommandControl(u, id) /\ ~adds_again THEN u
    ELSE [u EXCEPT !.gear_drop_down_controls = Append(@, id)]

\* spur_gear/entry.py:23-35, start
spur_gear_start(u, adds_again) ==
    LET deleted == IF HasCommandDefinition(u, CMD_ID)
                   THEN DeleteCommandDefinition(u, CMD_ID) ELSE u
        added == [deleted EXCEPT !.commandDefinitions =
                    Append(@, [id |-> CMD_ID, name |-> "Spur Gear",
                               added_by_call |-> Len(u.calls)])]
    IN  addCommand(get_gear_drop_down(added), CMD_ID, adds_again)

\* spur_gear/entry.py:39-51, stop
spur_gear_stop(u) ==
    LET with_drop_down == get_gear_drop_down(u)
        command_control == HasCommandControl(with_drop_down, CMD_ID)
        command_definition == HasCommandDefinition(with_drop_down, CMD_ID)
        control_deleted ==
            IF command_control THEN DeleteCommandControl(with_drop_down, CMD_ID)
                               ELSE with_drop_down
    IN  IF command_definition THEN DeleteCommandDefinition(control_deleted, CMD_ID)
                              ELSE control_deleted

\* commands/__init__.py:12-14, start: commands = [spur_gear]
commands_start(u, adds_again) == spur_gear_start(u, adds_again)

\* the drop-down left in the panel
commands_stop_keeps_drop_down(u) ==
    get_gear_drop_down(spur_gear_stop(u))
\* commands/__init__.py:19-25, stop: every command stopped, then the
\* drop-down deleted with the controls it holds
commands_stop(u) ==
    LET with_drop_down == get_gear_drop_down(spur_gear_stop(u))
    IN  [with_drop_down EXCEPT !.controls = @ \ {GEAR_DROP_DOWN_ID},
                               !.gear_drop_down_controls = <<>>]

\* YAGA.py:6-11, run
run ==
    /\ Len(ui.calls) < MaxCalls
    /\ \E adds_again \in BOOLEAN :
         ui' = commands_start([ui EXCEPT !.calls = Append(@, "start")], adds_again)
    /\ UNCHANGED <<frame, design, dialog, areInputsValid, error_message, sketch, tooth>>

\* YAGA.py:14-20, stop
stop ==
    /\ Len(ui.calls) < MaxCalls
    /\ ui' = commands_stop([ui EXCEPT !.calls = Append(@, "stop")])
    /\ UNCHANGED <<frame, design, dialog, areInputsValid, error_message, sketch, tooth>>

\* what the host may hold when the add-in is loaded: nothing of the add-in,
\* or what an earlier session left behind; and another add-in's command
UserInterfaces ==
    { [commandDefinitions |-> others \o left,
       controls |-> controls,
       gear_drop_down_controls |-> buttons,
       addDropDown_calls |-> 0,
       calls |-> <<>>] :
         others \in {<<>>, <<[id |-> "other", name |-> "Other", added_by_call |-> 0]>>},
         left \in {<<>>, <<[id |-> CMD_ID, name |-> "Spur Gear", added_by_call |-> 0]>>},
         controls \in SUBSET {GEAR_DROP_DOWN_ID, "other"},
         buttons \in {<<>>, <<CMD_ID>>} }

InitAddIn ==
    /\ ui \in { u \in UserInterfaces :
                  u.gear_drop_down_controls # <<>> => GEAR_DROP_DOWN_ID \in u.controls }
    /\ frame = NoFrame
    /\ design = EmptyDesign
    /\ dialog = [name |-> None]
    /\ areInputsValid = "unset"
    /\ error_message = ""
    /\ sketch = NoSketch
    /\ tooth = NoTooth

NextAddIn == run \/ stop

SpecAddIn == InitAddIn /\ [][NextAddIn]_vars

----------------------------------------------------------------------------
(* The rack command: command_created, the user's changes to the inputs,    *)
(* command_validate_input, command_execute_preview, command_execute and    *)
(* command_destroy. The document keeps what a preview built: taking a      *)
(* preview back is the host's work, not the command's.                     *)

\* rack/entry.py:21
ATTRIBUTE_GROUP_NAME == "YAGA_Rack"

\* design.attributes.itemByName(groupName, name): the attribute, or None
itemByName(attributes, groupName, name) ==
    IF <<groupName, name>> \in DOMAIN attributes
    THEN [value |-> attributes[<<groupName, name>>]]
    ELSE None

\* design.attributes.add(groupName, name, value): a new attribute, or a new
\* value for the one of that name
attributes_add(attributes, groupName, name, value) ==
    [k \in DOMAIN attributes \cup {<<groupName, name>>} |->
        IF k = <<groupName, name>> THEN value ELSE attributes[k]]

\* a text the host does not read as an expression
NotAnExpression == [op |-> "text"]

\* rack/entry.py:85-90, in the host's units (radians, cm)
rack_defaults ==
    [pressureAngle |-> radians(20), numberOfTeeth |-> RInt(10), module |-> Rat(1, 2),
     rootFilletRadius |-> Rat(1, 10), thickness |-> Rat(1, 2), backlash |-> RInt(0)]

\* general_utils.py:163-193, add_value_input and add_distance_value_input:
\* the input starts from the default and takes the attribute's value as its
\* expression; given a text that is no expression the host either raises
\* (the except leaves the default) or keeps the text and flags the input
add_value_input(attr, default_value, raises) ==
    LET i == ValueCommandInput(default_value)
    IN  IF attr # None
        THEN IF attr.value # NotAnExpression
             THEN [i EXCEPT !.expression = attr.value,
                            !.value = evaluateExpression(attr.value, {})]
             ELSE IF raises THEN i
             ELSE [i EXCEPT !.expression = attr.value, !.isValidExpression = FALSE]
        ELSE i

\* rack/entry.py:95-132: the inputs command_created adds to the dialog
rack_command_created_inputs(d, raises) ==
    LET Input(id) ==
            add_value_input(itemByName(d.attributes, ATTRIBUTE_GROUP_NAME, id),
                            rack_defaults[id], raises)
    IN  [name |-> find_next_name(d, <<"Rack">>),
         pressureAngle |-> Input("pressureAngle"),
         numberOfTeeth |-> Input("numberOfTeeth"),
         module |-> Input("module"),
         rootFilletRadius |-> Input("rootFilletRadius"),
         thickness |-> Input("thickness"),
         backlash |-> Input("backlash")]

\* rack/entry.py:71-154: the host opens one command dialog at a time
rack_command_created ==
    /\ dialog = NoDialog
    /\ \E raises \in BOOLEAN : dialog' = rack_command_created_inputs(design, raises)
    /\ error_message' = ""
    /\ areInputsValid' = "unset"
    /\ UNCHANGED <<frame, design, sketch, tooth, ui>>

\* the user gives one input of the open dialog another content; the handler,
\* rack/entry.py:208-209, does nothing, and the verdict of the validation
\* before the change says nothing of the new content
rack_command_input_changed(variants) ==
    /\ dialog # NoDialog
    /\ \E id \in DOMAIN variants : \E v \in variants[id] :
         /\ dialog[id] # v
         /\ dialog' = [dialog EXCEPT ![id] = v]
    /\ areInputsValid' = "unset"
    /\ UNCHANGED <<frame, design, error_message, sketch, tooth, ui>>

\* the attributes stored by a preview as well
rack_command_run_attributes_always(attributes, inputs, preview) ==
    [k \in DOMAIN attributes \cup { <<ATTRIBUTE_GROUP_NAME, id>> : id \in ValueInputIds } |->
        IF k[1] = ATTRIBUTE_GROUP_NAME /\ k[2] \in ValueInputIds
        THEN inputs[k[2]].expression
        ELSE attributes[k]]
\* rack/entry.py:194-200
rack_command_run_attributes(attributes, inputs, preview) ==
    IF ~preview
    THEN LET a1 == attributes_add(attributes, ATTRIBUTE_GROUP_NAME, "pressureAngle",
                                  inputs.pressureAngle.expression)
             a2 == attributes_add(a1, ATTRIBUTE_GROUP_NAME, "numberOfTeeth",
                                  inputs.numberOfTeeth.expression)
             a3 == attributes_add(a2, ATTRIBUTE_GROUP_NAME, "module",
                                  inputs.module.expression)
             a4 == attributes_add(a3, ATTRIBUTE_GROUP_NAME, "rootFilletRadius",
                                  inputs.rootFilletRadius.expression)
             a5 == attributes_add(a4, ATTRIBUTE_GROUP_NAME, "thickness",
                                  inputs.thickness.expression)
         IN  attributes_add(a5, ATTRIBUTE_GROUP_NAME, "backlash",
                            inputs.backlash.expression)
    ELSE attributes

\* rack/entry.py:165-203; the host enables it when the validation of the
\* dialog's content has set areInputsValid
rack_command_run(preview) ==
    /\ dialog # NoDialog
    /\ areInputsValid = "True"
    /\ design.components < MaxComponents
    /\ LET name == IF preview THEN <<"preview", "_">> \o dialog.name ELSE dialog.name
       IN  /\ frame' = Rack_locals(dialog.pressureAngle, dialog.numberOfTeeth,
                                   dialog.module, dialog.rootFilletRadius,
                                   dialog.thickness, dialog.backlash, preview, name)
           /\ design' = [AddToDesign(design, Rack_added, Rack_names(name))
                           EXCEPT !.attributes =
                               rack_command_run_attributes(design.attributes, dialog, preview)]
    /\ UNCHANGED <<areInputsValid, error_message, sketch, tooth, ui>>

\* rack/entry.py:161-162
rack_command_execute_preview ==
    /\ rack_command_run(TRUE)
    /\ UNCHANGED dialog

\* rack/entry.py:157-158, and the command's end that follows OK
rack_command_execute ==
    /\ rack_command_run(FALSE)
    /\ dialog' = NoDialog

\* rack/entry.py:308-310: the dialog is closed
rack_command_destroy ==
    /\ dialog # NoDialog
    /\ dialog' = NoDialog
    /\ UNCHANGED <<frame, design, areInputsValid, error_message, sketch, tooth, ui>>

\* the validation of the open dialog
rack_command_validate_open_dialog ==
    /\ dialog # NoDialog
    /\ rack_command_validate_input

\* what the user may put into the inputs of the dialog: for each input a
\* content that passes, and contents that fail each check made of it
InputVariants ==
    [name |-> { <<>>, <<"my", " ", "rack">>, <<"Rack", "1">>, <<"Rack", "2">> },
     pressureAngle |-> { ValueCommandInput(radians(20)), ValueCommandInput(radians(50)),
                         ValueCommandInput(radians(-5)),
                         FlaggedInput(radians(20), <<FALSE, TRUE>>) },
     numberOfTeeth |-> { ValueCommandInput(RInt(10)), ValueCommandInput(RInt(0)),
                         FlaggedInput(RInt(10), <<TRUE, FALSE>>) },
     module |-> { ValueCommandInput(Rat(1, 2)), ValueCommandInput(RInt(1)),
                  FlaggedInput(Rat(1, 2), <<FALSE, TRUE>>) },
     rootFilletRadius |-> { ValueCommandInput(Rat(1, 10)), ValueCommandInput(Rat(4, 10)),
                            FlaggedInput(Rat(1, 10), <<TRUE, FALSE>>) },
     thickness |-> { ValueCommandInput(Rat(1, 2)), FlaggedInput(Rat(1, 2), <<FALSE, TRUE>>) },
     backlash |-> { ValueCommandInput(RInt(0)), FlaggedInput(RInt(0), <<TRUE, FALSE>>) }]

ChangeAnyInput == rack_command_input_changed(InputVariants)

\* the dialog as command_created leaves it, in a document that holds Rack1
InitRackInputs ==
    /\ ui = NoUI
    /\ frame = NoFrame
    /\ design = DesignOfRacks({<<"Rack", "1">>})
    /\ dialog = rack_command_created_inputs(design, TRUE)
    /\ areInputsValid = "unset"
    /\ error_message = ""
    /\ sketch = NoSketch
    /\ tooth = NoTooth

NextRackInputs == ChangeAnyInput \/ rack_command_validate_input

SpecRackInputs == InitRackInputs /\ [][NextRackInputs]_vars

\* the contents given to the inputs between two runs of the command
RunVariants ==
    [module |-> { ValueCommandInput(Rat(1, 2)), ValueCommandInput(RInt(1)) },
     rootFilletRadius |-> { ValueCommandInput(Rat(1, 10)), ValueCommandInput(Rat(4, 10)) },
     backlash |-> { ValueCommandInput(RInt(0)), ValueCommandInput(Rat(1, 100)) }]

ChangeRunInput == rack_command_input_changed(RunVariants)

\* a new document, or one whose module attribute another script has written
RackCommandDesigns ==
    { EmptyDesign,
      [EmptyDesign EXCEPT !.attributes =
          attributes_add(<<>>, ATTRIBUTE_GROUP_NAME, "module", NotAnExpression)] }

InitRackCommand ==
    /\ ui = NoUI
    /\ frame = NoFrame
    /\ design \in RackCommandDesigns
    /\ dialog = NoDialog
    /\ areInputsValid = "unset"
    /\ error_message = ""
    /\ sketch = NoSketch
    /\ tooth = NoTooth

NextRackCommand ==
    \/ rack_command_created
    \/ ChangeRunInput
    \/ rack_command_validate_open_dialog
    \/ rack_command_execute_preview
    \/ rack_command_execute
    \/ rack_command_destroy

SpecRackCommand == InitRackCommand /\ [][NextRackCommand]_vars

----------------------------------------------------------------------------
(* The tooth's bodies, the exceptions of __extrude_tooth and               *)
(* find_smallest_profile.                                                  *)

\* C12: a non-preview SpurGear.create_component that runs to its end with
\* number_of_teeth = N leaves exactly N tooth bodies, body i (i = 0..N-1)
\* being the extruded tooth turned by rotation + i * 360/N degrees, each
\* angle computed from i; for N = 12 the bodies are 30 degrees apart.
C12_TeethAroundTheAxis ==
    tooth.pc = "done" =>
        LET N == frame.number_of_teeth[1]
            rotation == evaluateExpression(tooth.rotation_expr, {})
        IN  /\ Len(tooth.bodies) = N
            /\ \A i \in 0..(N - 1) :
                /\ tooth.bodies[i + 1].profiles = tooth.profiles
                /\ RMul(RInt(N), RSub(tooth.bodies[i + 1].angle, rotation))
                     = RMul(RInt(i), radians(360))
                /\ N = 12 => RSub(tooth.bodies[i + 1].angle, rotation) = radians(30 * i)

C12_Witness ==
    /\ tooth.pc = "done"
    /\ frame.number_of_teeth = RInt(12)
    /\ Len(tooth.bodies) = 12
    /\ tooth.rotation_expr = Num(radians(15))
    /\ tooth.bodies[1].angle = radians(15)
    /\ tooth.bodies[12].angle = radians(345)

----------------------------------------------------------------------------
(* The rack tooth sketch.                                                  *)

\* the dimensions of the rack tooth sketch between the given entities
RackDimensions(between) ==
    { k \in 1..Len(frame.tooth_sketch) : frame.tooth_sketch[k].between = between }
RackDimensionValue(k) == evaluateExpression(frame.tooth_sketch[k].expression, {})

\* C13: in the rack tooth sketch the left face line is dimensioned at
\* pressure_angle + 90 deg and the right face line at 90 deg - pressure_angle,
\* both from the left root line, so that the two sum to 180 deg, and the two
\* heights are module + 1.25 * module; for module = 5 mm at 20 deg the pitch
\* is 15.708 mm, the dedendum 6.25 mm, the height 11.25 mm and the angles 110
\* and 70 deg.
C13_RackToothSketch ==
    IsRack =>
        LET left == RackDimensions(<<"root_line_left", "face_line_left">>)
            right == RackDimensions(<<"root_line_left", "face_line_right">>)
            heights ==
                RackDimensions(<<"face_line_left.startSketchPoint",
                                 "face_line_left.endSketchPoint">>)
                  \cup RackDimensions(<<"face_line_right.startSketchPoint",
                                        "root_line_right.endSketchPoint">>)
        IN  /\ Cardinality(left) = 1 /\ Cardinality(right) = 1 /\ Cardinality(heights) = 2
            /\ \A l \in left, r \in right :
                /\ frame.tooth_sketch[l].dimension = "angular"
                /\ frame.tooth_sketch[r].dimension = "angular"
                /\ RackDimensionValue(l) = RAdd(frame.pressure_angle, radians(90))
                /\ RackDimensionValue(r) = RSub(radians(90), frame.pressure_angle)
                /\ RAdd(RackDimensionValue(l), RackDimensionValue(r)) = radians(180)
                /\ (frame.module = Rat(1, 2) /\ frame.pressure_angle = radians(20))
                     => /\ RackDimensionValue(l) = radians(110)
                        /\ RackDimensionValue(r) = radians(70)
            /\ \A h \in heights :
                /\ RackDimensionValue(h)
                     = RAdd(frame.module, RMul(Rat(125, 100), frame.module))
                /\ frame.module = Rat(1, 2) => RackDimensionValue(h) = Rat(1125, 1000)
            /\ frame.module = Rat(1, 2)
                 => /\ frame.dedendum = Rat(625, 1000)
                    /\ RLt(RAbs(RSub(frame.pitch, Rat(15708, 10000))), Rat(1, 10000))

C13_Witness ==
    /\ IsRack
    /\ frame.module = Rat(1, 2)
    /\ frame.pressure_angle = radians(20)
    /\ \E k \in 1..Len(frame.tooth_sketch) :
        /\ frame.tooth_sketch[k].between = <<"root_line_left", "face_line_right">>
        /\ RackDimensionValue(k) = radians(70)


\* the last search of __extrude_tooth raised
ToothRaised == tooth.pc = "raised"

\* a search of __extrude_tooth has run
ToothSearched == tooth.pc \in {"tip", "fillet radius a", "fillet radius b", "rotation", "raised"}

\* the exception names the sub-shape searched, and no tooth body was made
NamesSubShapeAndNoExtrusion ==
    /\ \E prefix \in {"expected 2 profile, found ", "expected 1 or 2 profile, found "} :
         tooth.raised = prefix \o ToString(Len(tooth.found_profiles))
                          \o " for spur gear tooth (" \o tooth.searched \o ")"
    /\ tooth.bodies = <<>>
    /\ design.extrudeFeatures = 1

\* the four selected regions extruded as one new body
OneToothBody ==
    /\ Len(tooth.bodies) = 1
    /\ Len(tooth.bodies[1].profiles) = 4
    /\ tooth.bodies[1].profiles = tooth.profiles
    /\ design.extrudeFeatures = 2

\* C19 as stated: __extrude_tooth raises, naming the sub-shape and creating
\* no tooth extrusion, exactly when a search finds a number of regions other
\* than 1 or 2; when every search finds 1 or 2 it extrudes the four
\* selected regions as one body.
C19_RaisesOutsideOneOrTwo ==
    ToothSearched =>
        /\ ToothRaised <=> Len(tooth.found_profiles) \notin {1, 2}
        /\ ToothRaised => NamesSubShapeAndNoExtrusion
        /\ tooth.pc = "rotation" => OneToothBody

\* C19 amended: __extrude_tooth raises, naming the sub-shape and creating no
\* tooth extrusion, exactly when the root search finds a number of regions
\* other than 2 or the tip or a fillet search finds a number other than 1
\* or 2; when no search raises it extrudes the four selected regions as one
\* body.
C19_RaisesOutsideExpected ==
    ToothSearched =>
        /\ ToothRaised <=>
             IF tooth.searched = "root"
             THEN Len(tooth.found_profiles) # 2
             ELSE Len(tooth.found_profiles) \notin {1, 2}
        /\ ToothRaised => NamesSubShapeAndNoExtrusion
        /\ tooth.pc = "rotation" => OneToothBody

C19_Witness ==
    /\ ToothRaised
    /\ tooth.searched = "root"
    /\ Len(tooth.found_profiles) = 1
    /\ tooth.raised = "expected 2 profile, found 1 for spur gear tooth (root)"
    /\ tooth.bodies = <<>>

\* |max.x - min.x| * |max.y - min.y| of a profile's bounding box
AreaOf(profile) ==
    LET box == profile.boundingBox
        w == box.maxPoint.x - box.minPoint.x
        h == box.maxPoint.y - box.minPoint.y
    IN  (IF w < 0 THEN -w ELSE w) * (IF h < 0 THEN -h ELSE h)

\* C20: for a non-empty list find_smallest_profile returns a profile of the
\* list whose bounding-box area is <= that of every profile of the list,
\* the first in the list of those of least area; for the empty list it
\* returns None.
C20_SmallestProfile ==
    tooth.pc = "returned" =>
        IF tooth.profiles = <<>>
        THEN tooth.smallest_profile = NoProfile
        ELSE \E k \in 1..Len(tooth.profiles) :
                /\ tooth.smallest_profile = tooth.profiles[k]
                /\ \A j \in 1..Len(tooth.profiles) :
                     AreaOf(tooth.profiles[k]) <= AreaOf(tooth.profiles[j])
                /\ \A j \in 1..(k - 1) :
                     AreaOf(tooth.profiles[j]) > AreaOf(tooth.profiles[k])

C20_Witness ==
    /\ tooth.pc = "returned"
    /\ Len(tooth.profiles) = 3
    /\ tooth.profiles[1].id = "disc"
    /\ tooth.profiles[2].id = "b"
    /\ tooth.profiles[3].id = "a"
    /\ tooth.smallest_profile.id = "b"


\* the value of an expression of the rack, which names no parameter
RackValue(e) == evaluateExpression(e, {})

\* the one dimension of the rack tooth sketch between the given entities
RackDimension(between) ==
    frame.tooth_sketch[CHOOSE k \in RackDimensions(between) : TRUE]

\* the width of one tooth at its base, from the left root line's start, which
\* lies on the origin, to the right root line's end
RackToothWidth ==
    RackValue(RackDimension(<<"root_line_left.startSketchPoint",
                              "root_line_right.endSketchPoint">>).expression)

\* the stretch of the first pattern direction that instance i of the pattern
\* covers: the tooth's own stretch moved by i spacings
CopySpan(i) ==
    LET start == RMul(RInt(i), RackValue(frame.tooth_pattern.distance_one))
    IN  <<start, RAdd(start, RackToothWidth)>>

\* C21: the rack's one tooth body is patterned number_of_teeth times along
\* the X axis at spacing pitch = pi * module, with one row in the second
\* direction; the tooth's base width being the pitch, copy i spans
\* [i * pitch, (i + 1) * pitch], neighbours meet without gap or overlap, and
\* the total length is number_of_teeth * pitch, the length of the
\* construction pitch line.
C21_RackPattern ==
    IsRack =>
        LET pattern == frame.tooth_pattern
            N == frame.number_of_teeth[1]
            pitch == RMul(PI, frame.module)
        IN  /\ pattern.entities = <<"tooth_extrude.bodies[0]">>
            /\ pattern.direction_one = "xConstructionAxis"
            /\ pattern.distance_type = "SpacingPatternDistanceType"
            /\ RackValue(pattern.quantity_one) = frame.number_of_teeth
            /\ RackValue(pattern.distance_one) = pitch
            /\ RackValue(pattern.quantity_two) = RInt(1)
            /\ DOMAIN pattern.bodies = 0..(N - 1)
            /\ RackToothWidth = pitch
            /\ \A i \in 0..(N - 1) :
                /\ CopySpan(i) = <<RMul(RInt(i), pitch), RMul(RInt(i + 1), pitch)>>
                /\ i < N - 1 => CopySpan(i)[2] = CopySpan(i + 1)[1]
            /\ CopySpan(N - 1)[2] = RMul(frame.number_of_teeth, pitch)
            /\ CopySpan(N - 1)[2] = RackValue(frame.construction_sketch[2].expression)
            /\ frame.construction_sketch[2].between
                 = <<"pitch_line.startSketchPoint", "pitch_line.endSketchPoint">>

C21_Witness ==
    /\ IsRack
    /\ frame.number_of_teeth = RInt(20)
    /\ frame.module = Rat(1, 2)
    /\ CopySpan(0) = <<RInt(0), Rat(355, 226)>>
    /\ CopySpan(19)[2] = Rat(3550, 113)

\* math.tan of the angles explored, to three decimals
tan(x) ==
    LET deg == CHOOSE d \in Degrees : radians(d) = x
    IN  CASE deg = -5 -> Rat(-87, 1000)
          [] deg = 0 -> RInt(0)
          [] deg = 20 -> Rat(364, 1000)
          [] deg = 45 -> RInt(1)
          [] deg = 50 -> Rat(1192, 1000)

\* the length of the pitch line of the rack tooth sketch, which joins the
\* two faces
RackPitchLineLength ==
    RackValue(RackDimension(<<"pitch_line.startSketchPoint",
                              "pitch_line.endSketchPoint">>).expression)

\* the length of the top land in the solved sketch: the faces lean inwards
\* by the face angle less 90 deg, and the top land lies above the pitch line
\* by the height less the dedendum
TopLandLength ==
    LET lean == RSub(RackValue(RackDimension(<<"root_line_left", "face_line_left">>).expression),
                     radians(90))
        rise == RSub(RackValue(RackDimension(<<"face_line_left.startSketchPoint",
                                               "face_line_left.endSketchPoint">>).expression),
                     RackValue(RackDimension(<<"pitch_line.startSketchPoint",
                                               "root_line_left.startSketchPoint">>).expression))
    IN  RSub(RackPitchLineLength, RMul(RInt(2), RMul(rise, tan(lean))))

RackGeometry(f) ==
    [construction_sketch |-> f.construction_sketch,
     tooth_sketch |-> f.tooth_sketch,
     tooth_extrude |-> f.tooth_extrude,
     tooth_pattern |-> f.tooth_pattern]

\* the call of the frame repeated with another backlash
RackWithBacklash(backlash) ==
    Rack_locals(frame.pressure_angle_value, frame.number_of_teeth_value,
                frame.module_value, frame.root_fillet_radius_value,
                frame.gear_thickness_value, ValueCommandInput(backlash),
                frame.preview, frame.name)

\* C25: two calls of Rack.create_component that differ in the backlash alone
\* build the same geometry: the same dimension expressions, extrusion
\* distance and pattern quantity and spacing.
C25_RackIgnoresBacklash ==
    IsRack =>
        \A backlash \in Backlashes :
            /\ RackWithBacklash(backlash).backlash_value # frame.backlash_value
                 => RackWithBacklash(backlash) # frame
            /\ RackGeometry(RackWithBacklash(backlash)) = RackGeometry(frame)

C25_Witness ==
    /\ IsRack
    /\ frame.backlash_value.value = Rat(1, 100)
    /\ frame.number_of_teeth = RInt(12)
    /\ RackWithBacklash(RInt(0)).backlash_value.value = RInt(0)
    /\ RackGeometry(RackWithBacklash(RInt(0))) = RackGeometry(frame)


\* the mirror offset angle of the frame's call repeated with another backlash
OffsetAngleWithBacklash(backlash) ==
    LET e == SpurGear_expressions(frame.pressure_angle_value.expression,
                                  frame.number_of_teeth_value.expression,
                                  frame.module_value.expression, Num(backlash), frame.name)
    IN  evaluateExpression(
            SpurGear_involute_curve_mirror_offset_angle_expr(
                e.half_tooth_thickness_expr, e.root_diameter_expr, e.backlash_angle_expr),
            e.parameters)

\* C24: both flanks are placed with the same mirror offset angle expression,
\* whose value is (half_tooth_thickness / (pi * root_diameter)) * 360 deg
\* less the backlash angle (backlash / 4 / (pi * pitch_diameter)) * 360 deg;
\* with backlash 0 it is the uncorrected angle, and with the other
\* parameters fixed a larger backlash gives a strictly smaller angle.
C24_MirrorOffsetAngle ==
    HasFlanks =>
        /\ tooth.spline[1].radius_line.expression = tooth.involute_curve_mirror_offset_angle_expr
        /\ tooth.mirror_spline[1].radius_line.expression
             = tooth.involute_curve_mirror_offset_angle_expr
        /\ ExprValue(tooth.involute_curve_mirror_offset_angle_expr)
             = RSub(UncorrectedOffsetAngle, BacklashAngle)
        /\ OffsetAngleWithBacklash(frame.backlash_value.value)
             = ExprValue(tooth.involute_curve_mirror_offset_angle_expr)
        /\ OffsetAngleWithBacklash(RInt(0)) = UncorrectedOffsetAngle
        /\ \A smaller, larger \in Backlashes \cup {frame.backlash_value.value} :
             RLt(smaller, larger)
                => RLess(OffsetAngleWithBacklash(larger), OffsetAngleWithBacklash(smaller))

C24_Witness ==
    /\ HasFlanks
    /\ frame.backlash_value.value = Rat(1, 100)
    /\ frame.number_of_teeth = RInt(12)
    /\ frame.pressure_angle = radians(20)
    /\ OffsetAngleWithBacklash(RInt(0)) = UncorrectedOffsetAngle
    /\ RLess(ExprValue(tooth.mirror_spline[1].radius_line.expression),
             OffsetAngleWithBacklash(RInt(0)))


\* C23: in the registered spur gear command's command_run the numeric
\* dedendum is 1.25 * module and the numeric root_diameter is the value of
\* root_diameter_expr, pitch_diameter - 2 * 1.25 * module, for every
\* number_of_teeth, module and pressure angle.
C23_EntryDedendum ==
    frame.fn = "spur_gear.entry.command_run" =>
        /\ frame.dedendum = RMul(Rat(125, 100), frame.module)
        /\ evaluateExpression(frame.root_diameter_expr, {})
             = RSub(frame.pitch_diameter, RMul(RInt(2), RMul(Rat(125, 100), frame.module)))
        /\ frame.root_diameter = evaluateExpression(frame.root_diameter_expr, {})


\* a name of the document starts with prefix + i
NameBlocked(prefix, i) ==
    \E n \in design.names : StartsWith(n, prefix \o format_int(i))

\* C27: when find_next_name returns a name it is prefix + i for the smallest
\* i in 1..99999 such that no dimension-parameter or extrude-feature name of
\* the document starts with prefix + i, and the name passes the validation's
\* uniqueness check, is_name_taken(design, name + "_") being False; it
\* returns None only when every i in 1..99999 is blocked.
C27_NextName ==
    frame.fn = "find_next_name" =>
        IF frame.returned = None
        THEN \A i \in 1..99999 : NameBlocked(frame.prefix, i)
        ELSE /\ \E i \in 1..99999 :
                  /\ frame.returned = frame.prefix \o format_int(i)
                  /\ ~NameBlocked(frame.prefix, i)
                  /\ \A j \in 1..(i - 1) : NameBlocked(frame.prefix, j)
             /\ ~is_name_taken(design, frame.returned \o <<"_">>)

C27_Witness ==
    /\ frame.fn = "find_next_name"
    /\ frame.prefix = <<"Rack">>
    /\ <<"Rack", "1", "0", "_", "pitch">> \in design.names
    /\ <<"Rack", "1", "_", "pitch">> \notin design.names
    /\ frame.returned = <<"Rack", "1", "1">>


\* the command definitions of the spur gear command
SpurGearDefinitions ==
    { k \in 1..Len(ui.commandDefinitions) : ui.commandDefinitions[k].id = CMD_ID }

\* C29: after every start there is exactly one command definition with the
\* spur gear CMD_ID, the one that start added, and the Gear drop-down
\* exists; after every stop there is no command definition with that id, no
\* command control for it and no Gear drop-down, although stop may have
\* added the drop-down while looking it up.
C29_StartStop ==
    Len(ui.calls) > 0 =>
        IF ui.calls[Len(ui.calls)] = "start"
        THEN /\ Cardinality(SpurGearDefinitions) = 1
             /\ \A k \in SpurGearDefinitions :
                  ui.commandDefinitions[k].added_by_call = Len(ui.calls)
             /\ GEAR_DROP_DOWN_ID \in ui.controls
        ELSE /\ SpurGearDefinitions = {}
             /\ \A k \in 1..Len(ui.gear_drop_down_controls) :
                  ui.gear_drop_down_controls[k] # CMD_ID
             /\ GEAR_DROP_DOWN_ID \notin ui.controls

\* two stops in a row: the second finds no drop-down, adds one and deletes it
C29_Witness ==
    /\ Len(ui.calls) = 4
    /\ ui.calls = <<"start", "start", "stop", "stop">>
    /\ ui.addDropDown_calls = 2
    /\ GEAR_DROP_DOWN_ID \notin ui.controls
    /\ SpurGearDefinitions = {}

----------------------------------------------------------------------------
(* Claims about the rack command's validation (SpecRackInputs).            *)

\* the checks in the order name, pressure angle, number of teeth, root
\* fillet radius validity, module, thickness, backlash, root fillet bound:
\* <<the check fails, its message>>
RackChecks ==
    LET NotValid(i) == ~(i.isValid /\ i.isValidExpression)
    IN  << <<Len(dialog.name) = 0, "Name is required">>,
           <<~is_valid_name(dialog.name),
             "Name must only contain letters, numbers, underscores, no spaces">>,
           <<is_name_taken(design, dialog.name \o <<"_">>), "Name already found">>,
           <<RLt(dialog.pressureAngle.value, RInt(0)),
             "Pressure angle must be greater than 0">>,
           <<RGt(dialog.pressureAngle.value, radians(45)),
             "Pressure angle must be less than than 45 degrees">>,
           <<NotValid(dialog.pressureAngle), "Pressure angle is not valid">>,
           <<RLt(dialog.numberOfTeeth.value, RInt(1)),
             "Number of teeth must be greater than 0">>,
           <<NotValid(dialog.numberOfTeeth), "Number of teeth is not valid">>,
           <<NotValid(dialog.rootFilletRadius), "Root fillet radius is not valid">>,
           <<NotValid(dialog.module), "Module is not valid">>,
           <<NotValid(dialog.thickness), "Thickness is not valid">>,
           <<NotValid(dialog.backlash), "Backlash is not valid">>,
           <<RootFilletTooLarge(dialog.module.value, dialog.rootFilletRadius.value),
             "Root fillet radius is too large. It must be less than {max_value}">> >>

FailingChecks == { k \in 1..Len(RackChecks) : RackChecks[k][1] }

\* what a validation leaves: the first failing check's message, or none
RackVerdict ==
    Validated =>
        /\ areInputsValid = "True" <=> error_message = ""
        /\ FailingChecks = {} => areInputsValid = "True"
        /\ FailingChecks # {} =>
             LET first == CHOOSE k \in FailingChecks : \A j \in FailingChecks : k <= j
             IN  /\ areInputsValid = "False"
                 /\ error_message = RackChecks[first][2]
                 /\ error_message # ""

\* a step that finds the inputs valid leaves no message of a validation before
RackMessageCleared == (areInputsValid' = "True") => (error_message' = "")

\* C28: after a rack command_validate_input areInputsValid is True exactly
\* when the error text is empty; a failed validation shows the non-empty
\* message of the first failing check, the checks taken in the order name,
\* pressure angle, number of teeth, root fillet radius validity, module,
\* thickness, backlash, root fillet bound; and a validation of fully valid
\* inputs clears the message an earlier failed validation left.
C28_RackValidation == []RackVerdict /\ [][RackMessageCleared]_vars

\* inputs that fail three checks (pressure angle above 45 deg, module not
\* valid, root fillet radius above the bound) are shown the message of the first
C28_Witness ==
    /\ areInputsValid = "False"
    /\ error_message = "Pressure angle must be less than than 45 degrees"
    /\ dialog.name = <<"Rack", "2">>
    /\ ~dialog.module.isValid
    /\ RootFilletTooLarge(dialog.module.value, dialog.rootFilletRadius.value)

----------------------------------------------------------------------------
(* Claims about the rack command's stored attributes (SpecRackCommand).    *)

RackAttributeKeys == { <<ATTRIBUTE_GROUP_NAME, id>> : id \in ValueInputIds }

\* the six rack attributes a document holds
RackAttributes(d) ==
    [k \in DOMAIN d.attributes \cap RackAttributeKeys |-> d.attributes[k]]

\* the expressions of the six value inputs, as attributes
InputExpressions(inputs) == [k \in RackAttributeKeys |-> inputs[k[2]].expression]

\* a step of command_run adds the rack's component to the document
IsRackRun == design'.components = design.components + 1

\* command_created fills an empty dialog
IsRackCreated == dialog = NoDialog /\ dialog' # NoDialog

RackAttributesStep ==
    /\ (IsRackRun /\ ~frame'.preview) => RackAttributes(design') = InputExpressions(dialog)
    /\ (IsRackRun /\ frame'.preview) =>
          /\ design'.attributes = design.attributes
          /\ frame'.name = <<"preview", "_">> \o dialog.name
          /\ frame'.name \in design'.names
    /\ ~IsRackRun => design'.attributes = design.attributes
    /\ IsRackCreated =>
          \A id \in ValueInputIds :
             LET k == <<ATTRIBUTE_GROUP_NAME, id>>
                 default == ValueCommandInput(rack_defaults[id])
             IN  IF k \in DOMAIN design.attributes
                 THEN \/ dialog'[id].expression = design.attributes[k]
                      \/ /\ design.attributes[k] = NotAnExpression
                         /\ dialog'[id] = default
                 ELSE dialog'[id] = default

\* C26: the six stored rack attributes (pressureAngle, numberOfTeeth, module,
\* rootFilletRadius, thickness, backlash) change only in a non-preview
\* command_run, which sets them to the expressions of its inputs, so they
\* always equal those of the most recent such run; a preview run leaves them
\* unchanged and names its component preview_<name>; the next command_created
\* gives each input the stored attribute's expression, or the default when
\* the attribute is absent or cannot be applied.
C26_RackAttributes == [][RackAttributesStep]_vars

\* after a rack built with module 1 and a new dialog opened from the stored
\* attributes, a preview with module 5 mm has run and the attributes still
\* hold the first run's expressions
C26_Witness ==
    /\ frame.fn = "Rack.create_component"
    /\ frame.preview
    /\ frame.name = <<"preview", "_", "Rack", "2">>
    /\ frame.module_value.expression = Num(Rat(1, 2))
    /\ DOMAIN design.attributes = RackAttributeKeys
    /\ design.attributes[<<ATTRIBUTE_GROUP_NAME, "module">>] = Num(RInt(1))
    /\ dialog # NoDialog
    /\ dialog.name = <<"Rack", "2">>

====
